---------------------------- MODULE Spec2Model ----------------------------
(***************************************************************************)
(* BeatBot: the secure command-execution pipeline.                         *)
(*   security/validator.py    CommandValidator                             *)
(*   security/permissions.py  PermissionManager, ApprovalManager           *)
(*   security/sandbox.py      SandboxManager                               *)
(*   core/executor.py         CommandExecutor                              *)
(*   storage/database.py      AuditLogger                                  *)
(*                                                                         *)
(* Text is a sequence of one-character strings.  The coroutines run on one *)
(* asyncio event loop, so the code between two awaits is one atomic step.  *)
(***************************************************************************)
EXTENDS Integers, Sequences, FiniteSets, TLC

\* ------------------------------------------------------------------------
\* Bounds of the model
\* ------------------------------------------------------------------------
NumCalls == 1
MaxApprovalTimeout == 2
MaxRules == 2
MaxLog == 2
MaxTamper == 2
NumPipelines == 2
MaxHistory == 3
MaxFallbacks == 2
MaxLoggers == 3
NumWaiting == 2
\* MemoryManager.context_window, a constructor argument (main.py passes 20)
context_window == 3

\* Agent.max_autonomous_steps
max_autonomous_steps == 5

\* ------------------------------------------------------------------------
\* Characters and text
\* ------------------------------------------------------------------------
NUL == "NUL"
ESC == "ESC"
BACKTICK == "BACKTICK"
\* one symbol that stands for a run of 10000 'x' characters
PAD == "PAD"
PadLen == 10000

None == "None"

IsSpace(ch) == ch \in {" ", "\t"}

Lower(ch) == IF ch = "M" THEN "m" ELSE ch

RECURSIVE TextLen(_)
TextLen(s) ==
    IF s = <<>> THEN 0
    ELSE (IF Head(s) = PAD THEN PadLen ELSE 1) + TextLen(Tail(s))

\* s[i..] starts with the literal t
StartsWithAt(s, i, t) ==
    /\ i + Len(t) - 1 <= Len(s)
    /\ \A k \in 1..Len(t) : s[i + k - 1] = t[k]

\* Python's  t in s
Contains(s, t) == \E i \in 1..(Len(s) + 1) : StartsWithAt(s, i, t)

\* ------------------------------------------------------------------------
\* Regular expressions (the fragment the code's patterns use)
\* ------------------------------------------------------------------------
RLit(c) == [k |-> "lit", c |-> c]
RWs1 == [k |-> "ws+", c |-> ""]
RWs0 == [k |-> "ws*", c |-> ""]
RAny == [k |-> "any*", c |-> ""]
RAz == [k |-> "az", c |-> ""]

Lit(t) == [i \in 1..Len(t) |-> RLit(t[i])]

IsAz(ch) == ch \in {"a", "c", "d", "f", "k", "l", "m", "r", "s", "t"}

\* does the regex p[i..] match a prefix of s[j..] ?
RECURSIVE MatchFrom(_, _, _, _, _)
MatchFrom(p, i, s, j, icase) ==
    IF i > Len(p) THEN TRUE
    ELSE LET e == p[i] IN
         CASE e.k = "lit" ->
                /\ j <= Len(s)
                /\ (IF icase THEN Lower(s[j]) = Lower(e.c) ELSE s[j] = e.c)
                /\ MatchFrom(p, i + 1, s, j + 1, icase)
           [] e.k = "az" ->
                /\ j <= Len(s)
                /\ IsAz(IF icase THEN Lower(s[j]) ELSE s[j])
                /\ MatchFrom(p, i + 1, s, j + 1, icase)
           [] e.k = "ws+" ->
                /\ j <= Len(s)
                /\ IsSpace(s[j])
                /\ (MatchFrom(p, i, s, j + 1, icase) \/ MatchFrom(p, i + 1, s, j + 1, icase))
           [] e.k = "ws*" ->
                \/ MatchFrom(p, i + 1, s, j, icase)
                \/ (j <= Len(s) /\ IsSpace(s[j]) /\ MatchFrom(p, i, s, j + 1, icase))
           [] e.k = "any*" ->
                \/ MatchFrom(p, i + 1, s, j, icase)
                \/ (j <= Len(s) /\ MatchFrom(p, i, s, j + 1, icase))

\* re.search(p, s)
ReSearch(p, s, icase) == \E j \in 1..(Len(s) + 1) : MatchFrom(p, 1, s, j, icase)

\* ------------------------------------------------------------------------
\* CommandValidator
\* ------------------------------------------------------------------------
DANGEROUS_PATTERNS == <<
    Lit(<<"r","m">>) \o <<RWs1>> \o Lit(<<"-","r","f">>),
    Lit(<<"m","k","f","s">>),
    Lit(<<"d","d">>) \o <<RWs1>> \o Lit(<<"i","f","=">>),
    Lit(<<":","(",")","{">>) \o <<RAny>> \o Lit(<<"|">>) \o <<RAny>>
        \o Lit(<<"&">>) \o <<RAny>> \o Lit(<<"}">>),
    Lit(<<">">>) \o <<RWs0>> \o Lit(<<"/","d","e","v","/","s","d">>) \o <<RAz>>,
    Lit(<<"c","u","r","l">>) \o <<RAny>> \o Lit(<<"|">>) \o <<RWs0>>
        \o Lit(<<"b","a","s","h">>),
    Lit(<<"w","g","e","t">>) \o <<RAny>> \o Lit(<<"|">>) \o <<RWs0>> \o Lit(<<"s","h">>),
    Lit(<<"n","c">>) \o <<RWs1>> \o Lit(<<"-","e">>),
    Lit(<<"c","h","m","o","d">>) \o <<RWs1>> \o Lit(<<"7","7","7">>),
    Lit(<<"c","h","o","w","n">>) \o <<RWs1>> \o Lit(<<"r","o","o","t">>)
>>

SUSPICIOUS_OPERATORS == <<
    <<"&","&">>, <<"|","|">>, <<";">>, <<"|">>, <<">">>, <<">",">">>,
    <<"<">>, <<"$","(">>, <<BACKTICK>>
>>

MaxCommandLength == 10000

ValidationLevels == {"strict", "moderate", "permissive"}

\* reason: what is formatted into the message, <<>> for None
ValidationResult(ok, reason, risk) ==
    [is_valid |-> ok, reason |-> reason, risk_level |-> risk]

\* index of the first dangerous pattern that matches, 0 if none
FirstDangerous(command) ==
    LET hits == {i \in 1..Len(DANGEROUS_PATTERNS) :
                    ReSearch(DANGEROUS_PATTERNS[i], command, TRUE)}
    IN  IF hits = {} THEN 0 ELSE CHOOSE i \in hits : \A k \in hits : i <= k

FirstOperator(command) ==
    LET hits == {i \in 1..Len(SUSPICIOUS_OPERATORS) :
                    Contains(command, SUSPICIOUS_OPERATORS[i])}
    IN  IF hits = {} THEN 0 ELSE CHOOSE i \in hits : \A k \in hits : i <= k

\* command.lower()
LowerText(s) == [i \in 1..Len(s) |-> Lower(s[i])]

\* index of the first blacklist entry the command contains, lines 88-90
FirstBlacklisted(command, blacklist) ==
    LET hits == {i \in 1..Len(blacklist) :
                    Contains(LowerText(command), LowerText(blacklist[i]))}
    IN  IF hits = {} THEN 0 ELSE CHOOSE i \in hits : \A k \in hits : i <= k

\* faulty variant: the blacklist is not looked at
validate_command_no_blacklist(level, command, blacklist) ==
    IF FirstDangerous(command) # 0
    THEN ValidationResult(FALSE, <<"dangerous", FirstDangerous(command)>>, "critical")
    ELSE IF level = "strict" /\ FirstOperator(command) # 0
    THEN ValidationResult(FALSE, <<"operator", FirstOperator(command)>>, "medium")
    ELSE IF TextLen(command) > MaxCommandLength
    THEN ValidationResult(FALSE, <<"length", 0>>, "medium")
    ELSE ValidationResult(TRUE, <<>>, "low")

\* validate_command(command, blacklist), lines 78-115; blacklist << >> is
\* None or the empty list
validate_command_blacklist(level, command, blacklist) ==
    IF FirstDangerous(command) # 0
    THEN ValidationResult(FALSE, <<"dangerous", FirstDangerous(command)>>, "critical")
    ELSE IF blacklist # << >> /\ FirstBlacklisted(command, blacklist) # 0
    THEN ValidationResult(FALSE, <<"blacklist", FirstBlacklisted(command, blacklist)>>,
                          "high")
    ELSE IF level = "strict" /\ FirstOperator(command) # 0
    THEN ValidationResult(FALSE, <<"operator", FirstOperator(command)>>, "medium")
    ELSE IF TextLen(command) > MaxCommandLength
    THEN ValidationResult(FALSE, <<"length", 0>>, "medium")
    ELSE ValidationResult(TRUE, <<>>, "low")

\* validate_command(command), blacklist = None as CommandExecutor calls it
validate_command(level, command) ==
    IF FirstDangerous(command) # 0
    THEN ValidationResult(FALSE, <<"dangerous", FirstDangerous(command)>>, "critical")
    ELSE IF level = "strict" /\ FirstOperator(command) # 0
    THEN ValidationResult(FALSE, <<"operator", FirstOperator(command)>>, "medium")
    ELSE IF TextLen(command) > MaxCommandLength
    THEN ValidationResult(FALSE, <<"length", 0>>, "medium")
    ELSE ValidationResult(TRUE, <<>>, "low")

\* command.replace(NUL, '')
RemoveNul(s) == SelectSeq(s, LAMBDA ch : ch # NUL)

IsAnsiParam(ch) == ch \in {"0", "1", "7", ";"}

\* end of the run of [0-9;] that starts at i
RECURSIVE ParamEnd(_, _)
ParamEnd(s, i) ==
    IF i <= Len(s) /\ IsAnsiParam(s[i]) THEN ParamEnd(s, i + 1) ELSE i

\* re.sub of the ANSI colour sequence ESC [ params m: one left-to-right pass
RECURSIVE RemoveAnsi(_, _)
RemoveAnsi(s, i) ==
    IF i > Len(s) THEN <<>>
    ELSE IF /\ s[i] = ESC
            /\ i + 1 <= Len(s)
            /\ s[i + 1] = "["
            /\ ParamEnd(s, i + 2) <= Len(s)
            /\ s[ParamEnd(s, i + 2)] = "m"
         THEN RemoveAnsi(s, ParamEnd(s, i + 2) + 1)
         ELSE <<s[i]>> \o RemoveAnsi(s, i + 1)

RECURSIVE LStrip(_)
LStrip(s) == IF s # <<>> /\ IsSpace(Head(s)) THEN LStrip(Tail(s)) ELSE s

RECURSIVE RStrip(_)
RStrip(s) ==
    IF s # <<>> /\ IsSpace(s[Len(s)]) THEN RStrip(SubSeq(s, 1, Len(s) - 1)) ELSE s

sanitize_command(command) == RStrip(LStrip(RemoveAnsi(RemoveNul(command), 1)))

SAFE_COMMANDS ==
    {<<"l","s">>, <<"p","w","d">>, <<"w","h","o","a","m","i">>, <<"d","a","t","e">>,
     <<"e","c","h","o">>, <<"c","a","t">>, <<"h","e","a","d">>, <<"t","a","i","l">>,
     <<"g","r","e","p">>, <<"f","i","n","d">>, <<"w","c">>, <<"s","o","r","t">>,
     <<"u","n","i","q">>, <<"d","i","f","f">>}

\* the characters of s before its first whitespace
RECURSIVE FirstWord(_)
FirstWord(s) ==
    IF s = <<>> \/ IsSpace(Head(s)) THEN <<>> ELSE <<Head(s)>> \o FirstWord(Tail(s))

\* is_safe_command, lines 128-129
is_safe_command(command) ==
    LET stripped == RStrip(LStrip(command))
        base_cmd == IF stripped # <<>> THEN FirstWord(stripped) ELSE <<>>
    IN  base_cmd \in SAFE_COMMANDS

\* ------------------------------------------------------------------------
\* PermissionManager
\* ------------------------------------------------------------------------
ALLOW == "allow"
DENY == "deny"
ASK == "ask"

COMMAND == "command"
FILE_READ == "file_read"
FILE_WRITE == "file_write"

\* a compiled regex, or a pattern re.compile rejects (kept as its text)
RegexPattern(re) == [ok |-> TRUE, re |-> re, text |-> <<>>]
InvalidPattern(text) == [ok |-> FALSE, re |-> <<>>, text |-> text]

\* re.escape(text) used as a pattern: matches the literal text
EscapedPattern(text) == RegexPattern(Lit(text))

Permission(rt, pattern, action, description) ==
    [resource_type |-> rt, pattern |-> pattern, action |-> action,
     description |-> description]

DefaultRules == <<
    Permission(COMMAND,
               RegexPattern(Lit(<<"r","m">>) \o <<RWs1>> \o Lit(<<"-","r","f">>)
                            \o <<RWs1>> \o Lit(<<"/">>)),
               DENY, "Prevent recursive deletion of root"),
    Permission(COMMAND, RegexPattern(Lit(<<"m","k","f","s">>)),
               DENY, "Prevent filesystem formatting"),
    Permission(COMMAND,
               RegexPattern(Lit(<<"d","d">>) \o <<RWs1>> \o Lit(<<"i","f","=">>)),
               DENY, "Prevent disk writing"),
    Permission(FILE_WRITE, RegexPattern(Lit(<<"/","e","t","c","/">>) \o <<RAny>>),
               ASK, "System configuration files require approval"),
    Permission(FILE_WRITE, RegexPattern(Lit(<<"/","s","y","s","/">>) \o <<RAny>>),
               ASK, "System files require approval")
>>

\* faulty variant: a pattern must cover the whole value (re.fullmatch)
matches_pattern_full(pattern, value) ==
    IF pattern.ok
    THEN ReSearch(pattern.re, value, FALSE) /\ Len(value) = Len(pattern.re)
    ELSE pattern.text = value

matches_pattern(pattern, value) ==
    IF pattern.ok THEN ReSearch(pattern.re, value, FALSE) ELSE pattern.text = value

\* faulty variant: the resource type of a rule is not looked at
check_permission_any_type(rule_list, resource_type, resource_value, default_action) ==
    LET hits == {i \in 1..Len(rule_list) :
                    matches_pattern(rule_list[i].pattern, resource_value)}
    IN  IF hits = {} THEN default_action
        ELSE rule_list[CHOOSE i \in hits : \A k \in hits : i <= k].action

\* faulty variant: the last matching rule decides
check_permission_last(rule_list, resource_type, resource_value, default_action) ==
    LET hits == {i \in 1..Len(rule_list) :
                    /\ rule_list[i].resource_type = resource_type
                    /\ matches_pattern(rule_list[i].pattern, resource_value)}
    IN  IF hits = {} THEN default_action
        ELSE rule_list[CHOOSE i \in hits : \A k \in hits : k <= i].action

check_permission(rule_list, resource_type, resource_value, default_action) ==
    LET hits == {i \in 1..Len(rule_list) :
                    /\ rule_list[i].resource_type = resource_type
                    /\ matches_pattern(rule_list[i].pattern, resource_value)}
    IN  IF hits = {} THEN default_action
        ELSE rule_list[CHOOSE i \in hits : \A k \in hits : i <= k].action

\* ------------------------------------------------------------------------
\* Results
\* ------------------------------------------------------------------------
\* the error text of a result: the message and what is formatted into it
Error(msg, detail) == [msg |-> msg, detail |-> detail]
NoError == Error(None, <<>>)

ExecutionResult(exit_code, stdout, stderr, timed_out, error) ==
    [exit_code |-> exit_code, stdout |-> stdout, stderr |-> stderr,
     timed_out |-> timed_out, error |-> error]

NoResult == [exit_code |-> 0, stdout |-> <<>>, stderr |-> <<>>,
             timed_out |-> FALSE, error |-> Error("unset", <<>>)]

\* the result of the early returns of execute
Rejection(error) == ExecutionResult(-1, <<>>, <<>>, FALSE, error)

\* ------------------------------------------------------------------------
\* OutputFilter.filter_secrets
\* ------------------------------------------------------------------------
\* one symbol that stands for an OpenAI-shaped key: sk- and 48 letters/digits
OPENAI_KEY == "OPENAI_KEY"
\* one symbol that stands for a 64-digit hexadecimal id, as the runtime prints
\* for a container or an image
HEX_ID == "HEX_ID"
\* one symbol that stands for the mask: 20 asterisks
MASK == "MASK"

\* The first pattern, a run of 40 or more base64 characters, matches the 48
\* characters after "sk-" and str.replace masks them; no later pattern matches
\* what is left.  The same pattern matches the 64 digits of an id.
RECURSIVE filter_secrets(_)
filter_secrets(text) ==
    IF text = <<>> THEN <<>>
    ELSE (IF Head(text) = OPENAI_KEY THEN <<"s", "k", "-", MASK>>
          ELSE IF Head(text) = HEX_ID THEN <<MASK>>
          ELSE <<Head(text)>>)
         \o filter_secrets(Tail(text))

\* ------------------------------------------------------------------------
\* SandboxManager: the container mode.  docker-py calls block, so one call of
\* execute_command is one step; what each call of the runtime does is the
\* environment's choice.
\* ------------------------------------------------------------------------
\* a runtime call succeeds, raises a DockerException, or raises something else
CallOutcomes == {"ok", "docker_exception", "exception"}

ExitCodes == {0, 1}

Outputs == {<<"o">>, <<"o", OPENAI_KEY>>}

\* str(e) of a DockerException: the runtime's text, which may name a container
\* or an image by its id
ExceptionTexts == {<<"e">>, <<"e", HEX_ID>>}

\* wait: the command exits within the timeout, the timeout expires (the command
\* overruns), or the call fails although the command has not overrun
WaitOutcomes == {"exit", "timeout", "failure"}

DockerEnvs ==
    [create : CallOutcomes, start : CallOutcomes, wait : WaitOutcomes,
     status_code : ExitCodes, kill : CallOutcomes, logs : CallOutcomes,
     remove : {"ok", "exception"}, out : Outputs, msg : ExceptionTexts]

\* lines 215-221: the result made from a DockerException raised by the call
\* `what`, whose str() is msg
DockerErrorResult(what, msg) ==
    ExecutionResult(-1, <<>>, <<>>, FALSE, Error("Docker error", <<what>> \o msg))

Returned(result) == [kind |-> "return", result |-> result, exc |-> None]
Raised(exc) == [kind |-> "raise", result |-> NoResult, exc |-> exc]

\* lines 199-213: the logs and the result
AfterLogs(env, exit_code, timed_out) ==
    CASE env.logs = "ok" ->
            Returned(ExecutionResult(exit_code, env.out, <<>>, timed_out, NoError))
      [] env.logs = "docker_exception" -> Returned(DockerErrorResult("logs", env.msg))
      [] env.logs = "exception" -> Raised("Exception")

\* lines 188-197: the wait; any exception counts as the timeout
AfterWait(env) ==
    IF env.wait = "exit" THEN AfterLogs(env, env.status_code, FALSE)
    ELSE CASE env.kill = "ok" -> AfterLogs(env, -1, TRUE)
           [] env.kill = "docker_exception" -> Returned(DockerErrorResult("kill", env.msg))
           [] env.kill = "exception" -> Raised("Exception")

AfterStart(env) ==
    CASE env.start = "ok" -> AfterWait(env)
      [] env.start = "docker_exception" -> Returned(DockerErrorResult("start", env.msg))
      [] env.start = "exception" -> Raised("Exception")

\* lines 169-221: the try block and its except clause
TryBlock(env) ==
    CASE env.create = "ok" -> AfterStart(env)
      [] env.create = "docker_exception" -> Returned(DockerErrorResult("create", env.msg))
      [] env.create = "exception" -> Raised("Exception")

\* what the runtime holds of the container once the try block is left
StatusAtExit(env) ==
    IF env.start # "ok" THEN "created"
    ELSE IF env.wait = "exit" \/ env.kill = "ok" THEN "exited"
    ELSE "running"

\* faulty variant: the container is removed only when the try block returns
ContainerRun_no_finally(env) ==
    LET body == TryBlock(env)
        removes == env.create = "ok" /\ body.kind = "return"
    IN  [kind |-> body.kind, result |-> body.result, exc |-> body.exc,
         created |-> env.create = "ok",
         remove_called |-> removes,
         remove_failed |-> removes /\ env.remove # "ok",
         left |-> env.create = "ok" /\ ~(removes /\ env.remove = "ok"),
         status |-> StatusAtExit(env),
         overran |-> env.create = "ok" /\ env.start = "ok" /\ env.wait = "timeout"]

\* lines 168-228: try, except DockerException, finally remove(force=True)
ContainerRun(env) ==
    LET body == TryBlock(env)
        removes == env.create = "ok"
    IN  [kind |-> body.kind, result |-> body.result, exc |-> body.exc,
         created |-> env.create = "ok",
         remove_called |-> removes,
         remove_failed |-> removes /\ env.remove # "ok",
         left |-> env.create = "ok" /\ ~(removes /\ env.remove = "ok"),
         status |-> StatusAtExit(env),
         overran |-> env.create = "ok" /\ env.start = "ok" /\ env.wait = "timeout"]

\* every way one container run can end
ContainerOutcomes == {ContainerRun(env) : env \in DockerEnvs}

\* build_sandbox_image, lines 83-134: images.get when the image was built before,
\* else (or when it is gone) images.build
ImageOutcomes(built) ==
    (IF built
        THEN {[raises |-> None, built |-> TRUE], [raises |-> "Exception", built |-> TRUE]}
        ELSE {})
    \cup {[raises |-> None, built |-> TRUE],
          [raises |-> "SandboxError", built |-> built],
          [raises |-> "Exception", built |-> built]}

\* the components of a path text from position i on; cur is the component
\* being read
RECURSIVE Components(_, _, _)
Components(s, i, cur) ==
    IF i > Len(s) THEN (IF cur = <<>> THEN <<>> ELSE <<cur>>)
    ELSE IF s[i] = "/"
         THEN (IF cur = <<>> THEN <<>> ELSE <<cur>>) \o Components(s, i + 1, <<>>)
         ELSE Components(s, i + 1, Append(cur, s[i]))

\* "." is dropped and ".." takes the component before it away
RECURSIVE Normal(_, _)
Normal(comps, done) ==
    IF comps = <<>> THEN done
    ELSE IF Head(comps) = <<".">> THEN Normal(Tail(comps), done)
    ELSE IF Head(comps) = <<".", ".">>
         THEN Normal(Tail(comps),
                     IF done = <<>> THEN <<>> ELSE SubSeq(done, 1, Len(done) - 1))
         ELSE Normal(Tail(comps), Append(done, Head(comps)))

RECURSIVE Join(_)
Join(comps) ==
    IF comps = <<>> THEN <<>> ELSE <<"/">> \o Head(comps) \o Join(Tail(comps))

\* str(Path(p).resolve()) of an absolute path without symbolic links
resolve(path) ==
    LET comps == Normal(Components(path, 1, <<>>), <<>>)
    IN  IF comps = <<>> THEN <<"/">> ELSE Join(comps)

\* _is_volume_allowed, lines 265-272
is_volume_allowed(allowed, host_path) ==
    \E i \in 1..Len(allowed) :
        StartsWithAt(resolve(host_path), 1, resolve(allowed[i]))

path_a == <<"/", "a">>
path_a_c == <<"/", "a", "/", "c">>
path_ab == <<"/", "a", "b">>
path_e == <<"/", "e">>
path_a_up_e == <<"/", "a", "/", ".", ".", "/", "e">>

\* SandboxConfig.allowed_volume_mounts: the default and one directory
AllowLists == {<<>>, <<path_a>>}

\* the host paths of the volumes argument (the keys of the dict)
VolumeChoices == {{}, {path_e}}

VolumeSets ==
    {{}, {path_a}, {path_a_c}, {path_ab}, {path_e}, {path_a_up_e}, {path_a_c, path_e}}

\* ------------------------------------------------------------------------
\* ApprovalManager
\* ------------------------------------------------------------------------
\* faulty variant: the request is created already approved
request_approval_approved(store, operation_id, command) ==
    [id \in DOMAIN store \cup {operation_id} |->
        IF id = operation_id THEN [status |-> "approved", command |-> command]
        ELSE store[id]]

\* request_approval, lines 307-313
request_approval(store, operation_id, command) ==
    [id \in DOMAIN store \cup {operation_id} |->
        IF id = operation_id THEN [status |-> "pending", command |-> command]
        ELSE store[id]]

\* faulty variant: every request of the store is set to approved
approve_every_request(store, operation_id) ==
    IF operation_id \in DOMAIN store
    THEN [store |-> [id \in DOMAIN store |-> [store[id] EXCEPT !.status = "approved"]],
          ret |-> TRUE]
    ELSE [store |-> store, ret |-> FALSE]

\* approve, lines 325-328: the new store and the value returned
approve(store, operation_id) ==
    IF operation_id \in DOMAIN store
    THEN [store |-> [store EXCEPT ![operation_id].status = "approved"], ret |-> TRUE]
    ELSE [store |-> store, ret |-> FALSE]

\* deny, lines 340-343
deny(store, operation_id) ==
    IF operation_id \in DOMAIN store
    THEN [store |-> [store EXCEPT ![operation_id].status = "denied"], ret |-> TRUE]
    ELSE [store |-> store, ret |-> FALSE]

\* get_status, lines 355-357
get_status(store, operation_id) ==
    IF operation_id \in DOMAIN store THEN store[operation_id].status ELSE None

\* clear_approval, lines 369-370
clear_approval(store, operation_id) ==
    [id \in DOMAIN store \ {operation_id} |-> store[id]]

\* ------------------------------------------------------------------------
\* CommandExecutor
\* ------------------------------------------------------------------------
\* faulty variant: an invalid command goes on to the permission check
ExecuteStage_no_validation(validation, permission, require_approval) ==
    IF permission = DENY THEN "denied"
    ELSE IF permission = ASK /\ require_approval THEN "ask"
    ELSE "sandbox"

\* faulty variant: an ASK decision asks even when approval is not required
ExecuteStage_ask_always(validation, permission, require_approval) ==
    IF ~validation.is_valid THEN "invalid"
    ELSE IF permission = DENY THEN "denied"
    ELSE IF permission = ASK THEN "ask"
    ELSE "sandbox"

\* execute, lines 75, 90, 99: where the call goes after the checks
ExecuteStage(validation, permission, require_approval) ==
    IF ~validation.is_valid THEN "invalid"
    ELSE IF permission = DENY THEN "denied"
    ELSE IF permission = ASK /\ require_approval THEN "ask"
    ELSE "sandbox"

\* faulty variant: the loop is entered once more when the time is up
wait_continues_once_more(elapsed, timeout) == elapsed <= timeout

\* line 155: while elapsed < timeout
wait_continues(elapsed, timeout) == elapsed < timeout

\* _wait_for_approval, lines 155-170: one pass of the loop head, given the
\* seconds slept so far and the status read
PollStep(elapsed, timeout, status) ==
    IF wait_continues(elapsed, timeout)
    THEN (IF status = "approved" THEN "approved"
          ELSE IF status = "denied" THEN "denied"
          ELSE "sleep")
    ELSE "timeout"

\* execute, lines 130-139: both streams are filtered, the rest is copied
FilterResult(result) ==
    ExecutionResult(result.exit_code, filter_secrets(result.stdout),
                    filter_secrets(result.stderr), result.timed_out, result.error)

\* faulty variant: a command that needs approval gets its request right away
validate_only_requesting(rule_list, store, lvl, command) ==
    LET sanitized == sanitize_command(command)
        validation == validate_command(lvl, sanitized)
        permission == check_permission(rule_list, COMMAND, sanitized, ASK)
    IN  [report |-> [original |-> command, sanitized |-> sanitized,
                     is_valid |-> validation.is_valid,
                     validation_reason |-> validation.reason,
                     risk_level |-> validation.risk_level,
                     permission |-> permission,
                     is_safe |-> is_safe_command(sanitized),
                     needs_approval |-> permission = ASK],
         rules |-> rule_list,
         store |-> IF permission = ASK THEN request_approval(store, 0, sanitized)
                   ELSE store]

\* faulty variant: the permission lookup falls back to ALLOW, as execute does
\* when approval is not required
validate_only_default_allow(rule_list, store, lvl, command) ==
    LET sanitized == sanitize_command(command)
        validation == validate_command(lvl, sanitized)
        permission == check_permission(rule_list, COMMAND, sanitized, ALLOW)
    IN  [report |-> [original |-> command, sanitized |-> sanitized,
                     is_valid |-> validation.is_valid,
                     validation_reason |-> validation.reason,
                     risk_level |-> validation.risk_level,
                     permission |-> permission,
                     is_safe |-> is_safe_command(sanitized),
                     needs_approval |-> permission = ASK],
         rules |-> rule_list,
         store |-> store]

\* validate_only, lines 183-206: the dict returned, and the rule list and the
\* approval store as the call leaves them
validate_only(rule_list, store, lvl, command) ==
    LET sanitized == sanitize_command(command)
        validation == validate_command(lvl, sanitized)
        permission == check_permission(rule_list, COMMAND, sanitized, ASK)
    IN  [report |-> [original |-> command, sanitized |-> sanitized,
                     is_valid |-> validation.is_valid,
                     validation_reason |-> validation.reason,
                     risk_level |-> validation.risk_level,
                     permission |-> permission,
                     is_safe |-> is_safe_command(sanitized),
                     needs_approval |-> permission = ASK],
         rules |-> rule_list,
         store |-> store]

\* ------------------------------------------------------------------------
\* AuditLogger
\* ------------------------------------------------------------------------
\* one symbol that stands for the 64 zeros of the genesis hash
GenesisHash == << <<"genesis">> >>

\* hashlib.sha256(content).hexdigest(): one symbol, a different one for every
\* content, and never the separator
sha256(content) == << <<"sha256", content>> >>

HashContent(previous_hash, event_type, description, metadata) ==
    previous_hash \o <<"|">> \o event_type \o <<"|">> \o description
        \o <<"|">> \o metadata

\* faulty variant: the hash does not take in the previous hash
compute_hash_unchained(previous_hash, event_type, description, metadata) ==
    sha256(HashContent(GenesisHash, event_type, description, metadata))

\* _compute_hash, lines 276-279
compute_hash(previous_hash, event_type, description, metadata) ==
    sha256(HashContent(previous_hash, event_type, description, metadata))

\* json.dumps(metadata or {})
json_dumps(metadata) ==
    IF metadata \in {None, "empty"} THEN <<"{", "}">> ELSE <<"{", metadata, "}">>

\* verify_integrity, lines 362-373, over the rows from position i on
RECURSIVE VerifyFrom(_, _, _)
VerifyFrom(rows, i, previous_hash) ==
    IF i > Len(rows) THEN <<TRUE, None>>
    ELSE IF rows[i].hash_chain #
              sha256(HashContent(previous_hash, rows[i].event_type,
                                 rows[i].description, rows[i].metadata))
         THEN <<FALSE, rows[i].id>>
         ELSE VerifyFrom(rows, i + 1, rows[i].hash_chain)

verify_integrity(rows) == VerifyFrom(rows, 1, GenesisHash)

EventTypes == {<<"c">>, <<"e">>}
Descriptions == {<<"x">>, <<"x", "|", "y">>}
Metadatas == {None, "k"}
UserIds == {None, "u"}

\* ------------------------------------------------------------------------
\* State
\* ------------------------------------------------------------------------
VARIABLES
    level,              \* CommandValidator.level
    sandbox_enabled,    \* SandboxConfig.enabled
    approval_timeout,   \* ApprovalManager.approval_timeout
    allowed_volume_mounts,  \* SandboxConfig.allowed_volume_mounts
    rules,              \* PermissionManager.rules
    pending_approvals,  \* ApprovalManager.pending_approvals
    calls,              \* the calls of CommandExecutor.execute: position and locals
    obs,                \* what has happened in each call (history)
    containers,         \* the containers the runtime holds
    processes,          \* the subprocesses of the direct mode that run
    image_built,        \* SandboxManager._sandbox_image_built
    audit_log,          \* the rows of table audit_log, by id
    last_hash,          \* AuditLogger._last_hash
    clock,              \* the database's CURRENT_TIMESTAMP
    appended,           \* the rows as AuditLogger.log wrote them (history)
    verify_result,      \* what verify_integrity returned last
    validate_report,    \* what validate_only returned last, <<>> before
    pipelines,          \* the calls of Agent.execute_command_from_string
    loop,               \* the invocation of Agent._autonomous_loop
    messages,           \* the rows of table messages of the conversation
    rules_file,         \* the JSON file export_rules wrote
    perm_call,          \* the last export, import or read of the rules (history)
    gen,                \* the call of LiteLLMProvider.generate
    loggers,            \* the AuditLogger objects constructed over the database so far
    validator_call,     \* the last call of validate_command: arguments and result
    hb                  \* BeatBot.heartbeat: the HeartbeatScheduler and its loop task

config_vars == <<level, sandbox_enabled, approval_timeout, allowed_volume_mounts>>
loop_vars == <<loop, messages>>
perm_vars == <<rules_file, perm_call>>
aux_vars == <<gen, validator_call, loggers, hb>>
side_vars == <<validate_report, pipelines, loop, messages, rules_file, perm_call, gen, validator_call, loggers, hb>>
sandbox_vars == <<containers, processes, image_built>>
exec_vars == <<rules, pending_approvals, calls, obs, containers, processes, image_built>>
audit_vars == <<audit_log, last_hash, clock, appended, verify_result>>
vars == <<level, sandbox_enabled, approval_timeout, allowed_volume_mounts, rules,
          pending_approvals, calls, obs, containers, processes, image_built,
          audit_log, last_hash, clock, appended, verify_result, validate_report,
          pipelines, loop, messages, rules_file, perm_call, gen, validator_call, loggers, hb>>

Calls == 1..NumCalls

Pipelines == 1..NumPipelines

IdlePipeline == [pc |-> "idle", command |-> <<>>, user_id |-> None]

cmd_ls == <<"l", "s">>
cmd_raw == <<" ", "l", NUL, "s", ESC, "[", "1", "m">>
cmd_mkfs == <<"m", "k", "f", "s">>
cmd_seq == <<"l", "s", ";">>
cmd_cat == <<"c", "a", "t">>

Commands == {cmd_ls, cmd_raw, cmd_mkfs, cmd_seq, cmd_cat}

RuleLiterals == {cmd_ls}

\* the rules add_rule is given
AddedRules ==
    {Permission(COMMAND, EscapedPattern(cmd_ls), ASK, "ask"),
     Permission(FILE_WRITE, EscapedPattern(cmd_ls), DENY, "no write")}

IdleCall ==
    [pc |-> "idle", command |-> <<>>, require_approval |-> FALSE, volumes |-> {},
     sanitized |-> <<>>, elapsed |-> 0, result |-> NoResult, exc |-> None]

IdleObs ==
    [sandbox_calls |-> 0, approvals_created |-> 0,
     validated |-> <<>>,            \* the arguments of validate_command
     checked |-> <<>>,              \* the arguments of check_permission
     permission |-> None,           \* what check_permission returned
     sandbox_commands |-> <<>>,     \* the commands handed to the sandbox
     sandbox_result |-> NoResult,   \* what the sandbox returned
     deny_first |-> FALSE, deny_any |-> FALSE,
     denied_waiting |-> FALSE,
     status_reads |-> 0,            \* the calls of get_status in _wait_for_approval
     overran |-> FALSE, created |-> FALSE, remove_called |-> FALSE,
     remove_failed |-> FALSE]

\* rule i of the list is a command rule that matches the value
CommandRuleMatches(rule_list, i, value) ==
    /\ rule_list[i].resource_type = COMMAND
    /\ matches_pattern(rule_list[i].pattern, value)

\* the first command rule that matches the value is a DENY rule
FirstMatchIsDeny(rule_list, value) ==
    \E i \in 1..Len(rule_list) :
        /\ CommandRuleMatches(rule_list, i, value)
        /\ rule_list[i].action = DENY
        /\ \A k \in 1..(i - 1) : ~CommandRuleMatches(rule_list, k, value)

\* some command rule that matches the value is a DENY rule
MatchesAnyDeny(rule_list, value) ==
    \E i \in 1..Len(rule_list) :
        CommandRuleMatches(rule_list, i, value) /\ rule_list[i].action = DENY

\* the objects as their constructors leave them
\* Agent.__init__, lines 88-91, and the locals of _autonomous_loop before it is
\* called
IdleLoop ==
    [pc |-> "idle", steps |-> 0, current_response |-> <<>>,
     skill_manager |-> FALSE,       \* register_skill_manager was called
     command |-> [found |-> FALSE, text |-> <<>>],
     skill_call |-> [name |-> None],
     result_bound |-> FALSE,        \* the local `result` has been assigned
     result |-> [exit_code |-> 0, stdout |-> <<>>, stderr |-> <<>>,
                 timed_out |-> FALSE, error |-> NoError],
     context |-> <<>>,              \* the messages given to the last generate
     generated |-> 0,               \* the calls of model.generate
     executed |-> 0,                \* the commands sent and the skills run
     required |-> <<>>,             \* require_approval of each command sent
     observation |-> <<>>,          \* the observation added last
     exit_code |-> 0,               \* the local exit_code of the step
     returned |-> <<>>, exc |-> None]

\* validate_command has not been called
NoValidation ==
    [called |-> FALSE, command |-> << >>, blacklist |-> << >>,
     result |-> ValidationResult(TRUE, << >>, "low")]

\* generate has not been called
NoModelError == [type |-> None, model |-> None]

IdleGenerate ==
    [pc |-> "idle", models_to_try |-> << >>, i |-> 0,
     attempts |-> << >>,            \* the models called and how each call ended
     last_error |-> NoModelError,
     returned |-> [model |-> None, content |-> << >>],
     exc |-> NoModelError]

\* no file exported yet, no call recorded
NoFile == [written |-> FALSE, data |-> << >>, of |-> << >>]

NoPermCall ==
    [op |-> None, append |-> FALSE, resource_type |-> None, value |-> << >>,
     default_action |-> None, permission |-> None, changed |-> FALSE, tick |-> 0]

\* no time: the None of quiet_hours_start, quiet_hours_end and last_run
NoTime == -1

\* BeatBot.__init__, main.py line 50: self.heartbeat = None; the fields are
\* those HeartbeatScheduler.__init__ sets (heartbeat.py 49-55), `task` is the
\* loop task's position and `loop_exc` the exception it ended with, `raised`
\* the exception the last call of a method raised, `now` the wall clock
NoScheduler ==
    [constructed |-> FALSE, enabled |-> FALSE,
     quiet_hours_start |-> NoTime, quiet_hours_end |-> NoTime,
     tasks |-> << >>, running |-> FALSE, task |-> "None", loop_exc |-> "None",
     current |-> 0, wake_at |-> 0, raised |-> "None", now |-> 0]

\* everything but the calls of execute and the conversation
InitObjects ==
    /\ rules = DefaultRules
    /\ pending_approvals = << >>
    /\ containers = {}
    /\ processes = {}
    /\ image_built = FALSE
    /\ audit_log = << >>
    /\ last_hash = GenesisHash
    /\ clock = 0
    /\ appended = << >>
    /\ verify_result = <<TRUE, None>>
    /\ validate_report = << >>
    /\ pipelines = [p \in Pipelines |-> IdlePipeline]
    /\ loop = IdleLoop
    /\ rules_file = NoFile
    /\ perm_call = NoPermCall
    /\ gen = IdleGenerate
    /\ validator_call = NoValidation
    /\ loggers = 1
    /\ hb = NoScheduler

\* no call of execute has started
InitExec ==
    /\ calls = [c \in Calls |-> IdleCall]
    /\ obs = [c \in Calls |-> IdleObs]
    /\ InitObjects

\* no conversation yet
InitState == InitExec /\ messages = << >>

\* the configuration: any validation level, both modes, the default allow-list
Init ==
    /\ level \in ValidationLevels
    /\ sandbox_enabled \in BOOLEAN
    /\ approval_timeout \in 0..MaxApprovalTimeout
    /\ allowed_volume_mounts = << >>
    /\ InitState

\* ------------------------------------------------------------------------
\* CommandExecutor.execute
\* ------------------------------------------------------------------------
ValidationFailed == "Command validation failed"
DeniedByRules == "Command denied by permission rules"
NotApproved == "Command execution not approved or timed out"

\* the call returns the result
Return(c, cr, ob, result) ==
    /\ calls' = [calls EXCEPT ![c] = [cr EXCEPT !.pc = "returned", !.result = result]]
    /\ obs' = [obs EXCEPT ![c] = ob]

\* the call raises
Raise(c, cr, ob, exc) ==
    /\ calls' = [calls EXCEPT ![c] = [cr EXCEPT !.pc = "raised", !.exc = exc]]
    /\ obs' = [obs EXCEPT ![c] = ob]

\* _execute_direct, lines 248-261: the result when communicate ends or the
\* timeout expires
direct_result(how, returncode, stdout) ==
    IF how = "exit" THEN ExecutionResult(returncode, stdout, <<>>, FALSE, NoError)
    ELSE ExecutionResult(-1, <<>>, <<>>, TRUE, NoError)

\* faulty variant: the sandbox is given the command as the caller wrote it
sandbox_command_raw(cr) == cr.command

\* execute, line 123: the command argument of sandbox.execute_command is the
\* local `command` that line 71 assigned
sandbox_command(cr) == cr.sanitized

\* execute, lines 122-139, and SandboxManager.execute_command up to its first
\* real suspension
EnterSandbox(c, cr, ob) ==
    LET ob1 == [ob EXCEPT !.sandbox_calls = @ + 1,
                          !.sandbox_commands = Append(@, sandbox_command(cr))] IN
    IF ~sandbox_enabled
    THEN /\ UNCHANGED <<containers, image_built>>
         /\ \/ /\ processes' = processes \cup {c}
               /\ calls' = [calls EXCEPT ![c] = [cr EXCEPT !.pc = "await_direct"]]
               /\ obs' = [obs EXCEPT ![c] = ob1]
            \/ /\ UNCHANGED processes
               /\ Raise(c, cr, ob1, "Exception")
    ELSE /\ UNCHANGED processes
         /\ \E img \in ImageOutcomes(image_built) :
              /\ image_built' = img.built
              /\ IF img.raises # None
                 THEN /\ Raise(c, cr, ob1, img.raises)
                      /\ UNCHANGED containers
                 ELSE IF \E host_path \in cr.volumes :
                            ~is_volume_allowed(allowed_volume_mounts, host_path)
                 THEN /\ Raise(c, cr, ob1, "SandboxError")
                      /\ UNCHANGED containers
                 ELSE \E o \in ContainerOutcomes :
                        LET ob2 == [ob1 EXCEPT !.sandbox_result = o.result,
                                               !.created = o.created,
                                               !.remove_called = o.remove_called,
                                               !.remove_failed = o.remove_failed,
                                               !.overran = o.overran]
                        IN  /\ containers' =
                                 IF o.left
                                 THEN containers \cup {[id |-> c, status |-> o.status]}
                                 ELSE containers
                            /\ IF o.kind = "return"
                               THEN Return(c, cr, ob2, FilterResult(o.result))
                               ELSE Raise(c, cr, ob2, o.exc)

\* _wait_for_approval: the loop head after `elapsed` seconds of sleep
AfterPoll(c, cr, ob, store, elapsed) ==
    LET step == PollStep(elapsed, approval_timeout, get_status(store, c))
        cr1 == [cr EXCEPT !.elapsed = elapsed]
        ob1 == IF wait_continues(elapsed, approval_timeout)
               THEN [ob EXCEPT !.status_reads = @ + 1]
               ELSE ob
    IN  CASE step = "sleep" ->
                /\ pending_approvals' = store
                /\ calls' = [calls EXCEPT ![c] = [cr1 EXCEPT !.pc = "await_approval"]]
                /\ obs' = [obs EXCEPT ![c] = ob1]
                /\ UNCHANGED sandbox_vars
          [] step = "approved" ->
                /\ pending_approvals' = clear_approval(store, c)
                /\ EnterSandbox(c, cr1, ob1)
          [] step \in {"denied", "timeout"} ->
                /\ pending_approvals' = clear_approval(store, c)
                /\ Return(c, cr1, ob1, Rejection(Error(NotApproved, <<>>)))
                /\ UNCHANGED sandbox_vars

\* execute, lines 70-139, from its call to its first suspension (or to its end)
execute(c, cmd, req, vol) ==
    /\ LET command == sanitize_command(cmd)
           validation == validate_command(level, command)
           permission == check_permission(rules, COMMAND, command,
                                          IF req THEN ASK ELSE ALLOW)
           stage == ExecuteStage(validation, permission, req)
           cr == [IdleCall EXCEPT !.command = cmd, !.require_approval = req,
                                  !.volumes = vol, !.sanitized = command]
           ob == [IdleObs EXCEPT !.deny_first = FirstMatchIsDeny(rules, command),
                                 !.deny_any = MatchesAnyDeny(rules, command),
                                 !.validated = <<command>>,
                                 !.checked = IF validation.is_valid
                                             THEN <<command>> ELSE <<>>,
                                 !.permission = IF validation.is_valid
                                                THEN permission ELSE None]
       IN  CASE stage = "invalid" ->
                   /\ Return(c, cr, ob,
                             Rejection(Error(ValidationFailed, validation.reason)))
                   /\ UNCHANGED <<pending_approvals, sandbox_vars>>
             [] stage = "denied" ->
                   /\ Return(c, cr, ob, Rejection(Error(DeniedByRules, <<>>)))
                   /\ UNCHANGED <<pending_approvals, sandbox_vars>>
             [] stage = "ask" ->
                   AfterPoll(c, cr, [ob EXCEPT !.approvals_created = @ + 1],
                             request_approval(pending_approvals, c, command), 0)
             [] stage = "sandbox" ->
                   /\ EnterSandbox(c, cr, ob)
                   /\ UNCHANGED pending_approvals
    /\ UNCHANGED rules

\* a caller other than the agent calls execute
Start(c, cmd, req, vol) ==
    /\ calls[c].pc = "idle"
    /\ \A k \in 1..(c - 1) : calls[k].pc # "idle"
    /\ execute(c, cmd, req, vol)
    /\ UNCHANGED <<config_vars, side_vars, audit_vars>>

\* asyncio.sleep(1) is over: elapsed += 1 and the loop head again
WakePoll(c) ==
    /\ calls[c].pc = "await_approval"
    /\ AfterPoll(c, calls[c], obs[c], pending_approvals, calls[c].elapsed + 1)
    /\ UNCHANGED <<config_vars, side_vars, rules, audit_vars>>

\* _execute_direct: communicate() is done, or wait_for gave up and the
\* process was killed
DirectFinish(c, how, returncode, stdout) ==
    /\ calls[c].pc = "await_direct"
    /\ processes' = processes \ {c}
    /\ Return(c, calls[c],
              [obs[c] EXCEPT !.overran = (how = "timeout"),
                             !.sandbox_result = direct_result(how, returncode, stdout)],
              FilterResult(direct_result(how, returncode, stdout)))
    /\ UNCHANGED <<config_vars, side_vars, rules, pending_approvals, containers, image_built,
                   audit_vars>>

\* the task that runs execute is cancelled: CancelledError is raised at the
\* await the call is suspended in; execute has no handler for it
Cancel(c) ==
    /\ calls[c].pc \in {"await_approval", "await_direct"}
    /\ calls' = [calls EXCEPT ![c].pc = "cancelled", ![c].exc = "CancelledError"]
    /\ UNCHANGED <<config_vars, side_vars, rules, pending_approvals, obs, sandbox_vars, audit_vars>>

\* ------------------------------------------------------------------------
\* The user answers an approval request
\* ------------------------------------------------------------------------
Approve(id) ==
    /\ pending_approvals' = approve(pending_approvals, id).store
    /\ UNCHANGED <<config_vars, side_vars, rules, calls, obs, sandbox_vars, audit_vars>>

Deny(id) ==
    /\ pending_approvals' = deny(pending_approvals, id).store
    /\ obs' = IF deny(pending_approvals, id).ret /\ calls[id].pc = "await_approval"
              THEN [obs EXCEPT ![id].denied_waiting = TRUE]
              ELSE obs
    /\ UNCHANGED <<config_vars, side_vars, rules, calls, sandbox_vars, audit_vars>>

\* ------------------------------------------------------------------------
\* PermissionManager: the rule list changes
\* ------------------------------------------------------------------------
RoomForRule == Len(rules) < Len(DefaultRules) + MaxRules

add_rule(rule) ==
    /\ RoomForRule
    /\ rules' = Append(rules, rule)
    /\ UNCHANGED <<config_vars, side_vars, pending_approvals, calls, obs, sandbox_vars, audit_vars>>

allow_command(command) ==
    add_rule(Permission(COMMAND, EscapedPattern(command), ALLOW, "Auto-allowed"))

deny_command(command) ==
    add_rule(Permission(COMMAND, EscapedPattern(command), DENY, "Auto-denied"))

\* _load_default_rules, lines 54-88: self.rules.extend([...])
load_default_rules(rule_list) == rule_list \o DefaultRules

\* faulty variant: the defaults are not loaded again, the list stays emptied
clear_rules_emptied ==
    /\ rules # DefaultRules
    /\ rules' = << >>
    /\ UNCHANGED <<config_vars, side_vars, pending_approvals, calls, obs, sandbox_vars, audit_vars>>

\* clear_rules, lines 267-270: self.rules = [] and _load_default_rules() with
\* no await between them, so the event loop runs nothing else in between
clear_rules ==
    /\ rules # DefaultRules
    /\ rules' = load_default_rules(<< >>)
    /\ UNCHANGED <<config_vars, side_vars, pending_approvals, calls, obs, sandbox_vars, audit_vars>>

Next ==
    \/ \E c \in Calls, cmd \in Commands, req \in BOOLEAN, vol \in VolumeChoices :
          Start(c, cmd, req, vol)
    \/ \E c \in Calls : WakePoll(c)
    \/ \E c \in Calls, how \in {"exit", "timeout"}, rc \in ExitCodes, out \in Outputs :
          DirectFinish(c, how, rc, out)
    \/ \E c \in Calls : Cancel(c)
    \/ \E id \in Calls : Approve(id)
    \/ \E id \in Calls : Deny(id)
    \/ \E rule \in AddedRules : add_rule(rule)
    \/ \E command \in RuleLiterals : allow_command(command)
    \/ \E command \in RuleLiterals : deny_command(command)
    \/ clear_rules

Spec == Init /\ [][Next]_vars

\* ------------------------------------------------------------------------
\* Volume mounts: the container mode with an allow-list
\* ------------------------------------------------------------------------
NextVolumes ==
    \E c \in Calls, cmd \in {cmd_ls, cmd_cat}, vol \in VolumeSets :
        Start(c, cmd, FALSE, vol)

InitVolumes ==
    /\ level = "strict"
    /\ sandbox_enabled = TRUE
    /\ approval_timeout = 0
    /\ allowed_volume_mounts \in AllowLists
    /\ InitState

SpecVolumes == InitVolumes /\ [][NextVolumes]_vars

\* ------------------------------------------------------------------------
\* CommandExecutor.validate_only, called at any point of a run
\* ------------------------------------------------------------------------
ValidateOnly(command) ==
    /\ \E r \in {validate_only(rules, pending_approvals, level, command)} :
           /\ validate_report' = <<r.report>>
           /\ rules' = r.rules
           /\ pending_approvals' = r.store
    /\ UNCHANGED <<config_vars, perm_vars, aux_vars, pipelines, loop_vars, calls, obs, sandbox_vars, audit_vars>>

\* one input that is sanitized and needs approval, one that is denied and
\* invalid, one that is invalid in the strict level only
ValidateInputs == {cmd_raw, cmd_mkfs, cmd_seq}

NextValidate ==
    \/ Next
    \/ \E command \in ValidateInputs : ValidateOnly(command)

\* the validator as BeatBot.initialize constructs it
InitValidate == Init /\ level = "strict" /\ approval_timeout = 1

SpecValidate == InitValidate /\ [][NextValidate]_vars

\* ------------------------------------------------------------------------
\* AuditLogger.log and verify_integrity; the stored rows can be edited from
\* outside the logger
\* ------------------------------------------------------------------------
\* log, lines 297-310
\* faulty variant: the cached hash is not brought up to date
log_stale(event_type, description, user_id, metadata, now) ==
    /\ LET metadata_str == json_dumps(metadata)
           hash_chain == compute_hash(last_hash, event_type, description, metadata_str)
           row == [id |-> Len(audit_log) + 1, timestamp |-> now,
                   event_type |-> event_type, user_id |-> user_id,
                   description |-> description, metadata |-> metadata_str,
                   hash_chain |-> hash_chain]
       IN  /\ audit_log' = Append(audit_log, row)
           /\ appended' = Append(appended, row)
           /\ last_hash' = last_hash
    /\ clock' = now

\* what log does to the table and to the cached hash; it has no await, so it
\* is one step of the event loop
log(event_type, description, user_id, metadata, now) ==
    /\ LET metadata_str == json_dumps(metadata)
           hash_chain == compute_hash(last_hash, event_type, description, metadata_str)
           row == [id |-> Len(audit_log) + 1, timestamp |-> now,
                   event_type |-> event_type, user_id |-> user_id,
                   description |-> description, metadata |-> metadata_str,
                   hash_chain |-> hash_chain]
       IN  /\ audit_log' = Append(audit_log, row)
           /\ appended' = Append(appended, row)
           /\ last_hash' = hash_chain
    /\ clock' = now

\* a call of log from anywhere else in the program
Log(event_type, description, user_id, metadata, now) ==
    /\ Len(audit_log) < MaxLog
    /\ log(event_type, description, user_id, metadata, now)
    /\ UNCHANGED <<config_vars, side_vars, exec_vars, verify_result>>

VerifyIntegrity ==
    /\ audit_log # << >>
    /\ verify_result' = verify_integrity(audit_log)
    /\ UNCHANGED <<config_vars, side_vars, exec_vars, audit_log, last_hash, clock, appended>>

StoredFields == {"timestamp", "event_type", "user_id", "description", "metadata",
                 "hash_chain"}

\* the values a stored field can be overwritten with
FieldValues(field) ==
    CASE field = "timestamp" -> 0..MaxLog
      [] field = "event_type" -> EventTypes
      [] field = "user_id" -> UserIds
      [] field = "description" -> Descriptions
      [] field = "metadata" -> {json_dumps(m) : m \in Metadatas}
      [] field = "hash_chain" ->
            {GenesisHash, sha256(<<"forged">>)}
                \cup {appended[i].hash_chain : i \in 1..Len(appended)}

\* the stored fields that differ from what log wrote
Changed ==
    {kf \in (1..Len(audit_log)) \X StoredFields :
        audit_log[kf[1]][kf[2]] # appended[kf[1]][kf[2]]}

\* somebody with access to the database overwrites one field of row k
Tamper(k, field, value) ==
    /\ k \in 1..Len(audit_log)
    /\ audit_log' = [audit_log EXCEPT ![k][field] = value]
    /\ Cardinality({kf \in (1..Len(audit_log)) \X StoredFields :
                       audit_log'[kf[1]][kf[2]] # appended[kf[1]][kf[2]]}) <= MaxTamper
    /\ audit_log' # audit_log
    /\ UNCHANGED <<config_vars, side_vars, exec_vars, last_hash, clock, appended, verify_result>>

LogStep ==
    \E event_type \in EventTypes, description \in Descriptions, user_id \in UserIds,
       metadata \in Metadatas, now \in {clock, clock + 1} :
        Log(event_type, description, user_id, metadata, now)

NextLog == LogStep \/ VerifyIntegrity

NextTamper ==
    \/ LogStep
    \/ VerifyIntegrity
    \/ \E k \in 1..MaxLog, field \in StoredFields :
          \E value \in FieldValues(field) : Tamper(k, field, value)

\* ------------------------------------------------------------------------
\* Agent.execute_command_from_string: the two appends around execute.  Each
\* call runs in its own task; execute may suspend, and what it returns is the
\* executor's business (modelled above), so here it is an input.
\* ------------------------------------------------------------------------
command_execution_requested == <<"command_execution_requested">>
command_executed == <<"command_executed">>

\* lines 242-258: the first append, then the task is suspended in execute
PipelineRequest(p, command, user_id, require_approval, now) ==
    /\ pipelines[p].pc = "idle"
    /\ log(command_execution_requested, <<"Command: ">> \o command, user_id,
           IF require_approval THEN "require_approval: true"
           ELSE "require_approval: false", now)
    /\ pipelines' = [pipelines EXCEPT ![p] = [pc |-> "executing", command |-> command,
                                              user_id |-> user_id]]
    /\ UNCHANGED <<config_vars, perm_vars, aux_vars, validate_report, loop_vars, exec_vars, verify_result>>

\* lines 258-270: execute has returned; the second append
PipelineExecuted(p, exit_code, timed_out, now) ==
    /\ pipelines[p].pc = "executing"
    /\ log(command_executed, <<"Exit code: ", exit_code>>, pipelines[p].user_id,
           IF timed_out THEN "timed_out: true" ELSE "timed_out: false", now)
    /\ pipelines' = [pipelines EXCEPT ![p].pc = "done"]
    /\ UNCHANGED <<config_vars, perm_vars, aux_vars, validate_report, loop_vars, exec_vars, verify_result>>

\* line 258: execute raised or the task was cancelled; nothing more is appended
PipelineRaised(p) ==
    /\ pipelines[p].pc = "executing"
    /\ pipelines' = [pipelines EXCEPT ![p].pc = "raised"]
    /\ UNCHANGED <<config_vars, perm_vars, aux_vars, validate_report, loop_vars, exec_vars, audit_vars>>

NextPipelines ==
    \/ \E p \in Pipelines, req \in BOOLEAN :
          PipelineRequest(p, cmd_ls, "u", req, clock + 1)
    \/ \E p \in Pipelines, exit_code \in {"0", "-1"} :
          PipelineExecuted(p, exit_code, FALSE, clock + 1)
    \/ \E p \in Pipelines : PipelineExecuted(p, "-1", TRUE, clock + 1)
    \/ \E p \in Pipelines : PipelineRaised(p)
    \/ \E event_type \in EventTypes : Log(event_type, <<"x">>, None, None, clock)
    \/ VerifyIntegrity

\* one executor configuration is enough for the logger
InitAudit == Init /\ level = "strict" /\ sandbox_enabled /\ approval_timeout = 0

SpecLog == InitAudit /\ [][NextLog]_vars

SpecTamper == InitAudit /\ [][NextTamper]_vars

SpecPipelines == InitAudit /\ [][NextPipelines]_vars

\* ------------------------------------------------------------------------
\* MemoryManager and ConversationStore: the messages of one conversation
\* ------------------------------------------------------------------------
\* ConversationStore.add_message, lines 160-182: one more row
add_message(rows, role, content) ==
    Append(rows, [id |-> Len(rows) + 1, role |-> role, content |-> content])

\* get_conversation_messages, lines 185-209: ORDER BY timestamp ASC, then
\* LIMIT when a limit is given (0 stands for none); the rows are kept in the
\* order they were added
get_conversation_messages(rows, limit) ==
    IF limit # 0 /\ limit < Len(rows)
    THEN SubSeq(rows, 1, limit)
    ELSE rows

\* MemoryManager.get_context, lines 104-134, with no max_messages given
get_context(rows) == get_conversation_messages(rows, context_window)

\* the conversation when the loop is called: process_message has added the
\* user's message and the model's first response to what was there before
History(n) ==
    [i \in 1..n |-> [id |-> i, role |-> IF (n - i) % 2 = 0 THEN "assistant" ELSE "user",
                     content |-> <<"h">>]]

\* ------------------------------------------------------------------------
\* Agent._autonomous_loop.  A model response is a text in which one symbol
\* stands for each fence and tag that _extract_command and
\* _extract_skill_call look for.
\* ------------------------------------------------------------------------
FENCE_BASH == "FENCE_BASH"      \* ```bash and a newline
FENCE_SH == "FENCE_SH"          \* ```sh and a newline
FENCE_PY == "FENCE_PY"          \* ```python and a newline
FENCE_END == "FENCE_END"        \* a newline and ```
CALL_OPEN == "CALL_OPEN"        \* <call_skill>
CALL_CLOSE == "CALL_CLOSE"      \* </call_skill>
JSON_A == "JSON_A"              \* {"name": "a", "parameters": {}}
JSON_ZZ == "JSON_ZZ"            \* {"name": "zz", "parameters": {}}

\* the first position from i on that holds one of the symbols, 0 if none
RECURSIVE Find(_, _, _)
Find(text, i, symbols) ==
    IF i > Len(text) THEN 0
    ELSE IF text[i] \in symbols THEN i
    ELSE Find(text, i + 1, symbols)

\* re.search with a lazy group: the leftmost opening that has a closing after
\* it, and the text up to the first such closing
RECURSIVE Between(_, _, _, _)
Between(text, i, opening, closing) ==
    LET a == Find(text, i, opening)
        b == IF a = 0 THEN 0 ELSE Find(text, a + 1, closing)
    IN  IF a = 0 \/ b = 0 THEN [found |-> FALSE, text |-> <<>>]
        ELSE [found |-> TRUE, text |-> SubSeq(text, a + 1, b - 1)]

\* _extract_command, lines 417-425
extract_command(text) ==
    LET group == Between(text, 1, {FENCE_BASH, FENCE_SH}, {FENCE_END})
    IN  [found |-> group.found, text |-> RStrip(LStrip(group.text))]

\* what _extract_skill_call returns when it returns None
NoSkillCall == [name |-> None]

\* json.loads of the payload of a skill call, with JSONDecodeError caught
json_loads(payload) ==
    IF payload = <<JSON_A>> THEN [name |-> "a"]
    ELSE IF payload = <<JSON_ZZ>> THEN [name |-> "zz"]
    ELSE NoSkillCall

\* _extract_skill_call, lines 427-439
extract_skill_call(text) ==
    LET group == Between(text, 1, {CALL_OPEN}, {CALL_CLOSE})
    IN  IF group.found THEN json_loads(RStrip(LStrip(group.text))) ELSE NoSkillCall

\* Python's truth value of what _extract_command returned: None and the
\* empty string are false
Truthy(command) == command.found /\ command.text # <<>>

resp_done == <<"o", "k">>
resp_ls == <<"t", FENCE_BASH, "l", "s", FENCE_END>>
resp_py == <<"t", FENCE_PY, "l", "s", FENCE_END>>
resp_skill_a == <<CALL_OPEN, JSON_A, CALL_CLOSE>>
resp_skill_zz == <<CALL_OPEN, " ", JSON_ZZ, CALL_CLOSE>>
resp_both == <<FENCE_SH, "l", "s", " ", FENCE_END, CALL_OPEN, JSON_A, CALL_CLOSE>>

\* the responses process_message may pass to the loop
InitialResponses == {resp_done, resp_ls, resp_py, resp_skill_a, resp_skill_zz, resp_both}

\* the responses model.generate returns inside the loop
Responses == {resp_done, resp_ls, resp_skill_a, resp_skill_zz}

\* the skills the skill manager holds
SkillNames == {"a"}

\* what skill.execute does: a result with success, one without, an exception
SkillOutcomes == {"success", "failure", "raise"}

\* str() of an exit code
ExitText(exit_code) ==
    IF exit_code = 0 THEN "0" ELSE IF exit_code = 1 THEN "1" ELSE "-1"

StepText(steps) == <<"0", "1", "2", "3", "4", "5", "6", "7">>[steps + 1]

\* the logger's table and cache as one value, so that a step which appends
\* more than once can be written down
AuditState ==
    [audit_log |-> audit_log, appended |-> appended, last_hash |-> last_hash,
     clock |-> clock]

\* AuditLogger.log, lines 297-310, on such a value
logged(au, event_type, description, user_id, metadata) ==
    LET metadata_str == json_dumps(metadata)
        hash_chain == compute_hash(au.last_hash, event_type, description, metadata_str)
        row == [id |-> Len(au.audit_log) + 1, timestamp |-> au.clock,
                event_type |-> event_type, user_id |-> user_id,
                description |-> description, metadata |-> metadata_str,
                hash_chain |-> hash_chain]
    IN  [au EXCEPT !.audit_log = Append(@, row), !.appended = Append(@, row),
                   !.last_hash = hash_chain]

\* the call of execute the loop waits for
LoopCallId == 1

LoopUser == "u"

\* faulty variant: the loop sends its commands without require_approval
loop_require_approval_off == FALSE

\* line 351: require_approval=True
loop_require_approval == TRUE

\* faulty variant: one step more than the limit
loop_continues_once_more(steps) == steps <= max_autonomous_steps

\* line 330: while steps < self.max_autonomous_steps
loop_continues(steps) == steps < max_autonomous_steps

\* faulty variant: a response without a directive is treated as a step
nothing_to_do_ignored(command, skill_call) == FALSE

\* line 336: if not command and not skill_call
nothing_to_do(command, skill_call) == ~Truthy(command) /\ skill_call = NoSkillCall

\* faulty variant: the observation is not added to the conversation
add_observation_skipped(rows, observation) == rows

\* line 396: the observation is added as a user message
add_observation(rows, observation) ==
    add_message(rows, "user", <<"System Action Result:">> \o observation)

\* lines 272-279 and 355-358: the dict execute_command_from_string returns and
\* the output text the loop makes of it
result_dict(result) ==
    [exit_code |-> result.exit_code, stdout |-> result.stdout,
     stderr |-> result.stderr, timed_out |-> result.timed_out, error |-> result.error]

result_output_of(result) ==
    result.stdout \o result.stderr
        \o (IF result.error.msg # None
            THEN <<"Error: ", result.error.msg>> \o result.error.detail
            ELSE <<>>)

\* line 393
format_observation(exit_code, result_output) ==
    <<"Exit Code: ", ExitText(exit_code), "Output:">> \o result_output

\* the loop leaves through `return current_response`
LoopReturn(s) ==
    [s EXCEPT !.lp.pc = "returned", !.lp.returned = s.lp.current_response]

\* lines 392-411: the observation is formatted and added, the step is logged,
\* the context is read; the task is then suspended in model.generate.  The
\* logging reads the local `result`, which only a command step assigns.
Observe(s, result_output, exit_code) ==
    LET observation == format_observation(exit_code, result_output)
        rows == add_observation(s.msgs, observation)
        s1 == [s EXCEPT !.msgs = rows, !.lp.observation = observation,
                        !.lp.exit_code = exit_code]
    IN  IF ~s.lp.result_bound
        THEN [s1 EXCEPT !.lp.pc = "raised", !.lp.exc = "UnboundLocalError"]
        ELSE [s1 EXCEPT !.au = logged(s.au, <<"autonomous_step">>,
                                      <<"Step ", StepText(s.lp.steps), " complete">>,
                                      LoopUser, ExitText(s.lp.result.exit_code)),
                        !.lp.context = get_context(rows),
                        !.lp.pc = "await_generate"]

\* lines 330-391: the loop from its head to the next await
LoopHead(s) ==
    IF ~loop_continues(s.lp.steps) THEN LoopReturn(s)
    ELSE LET command == extract_command(s.lp.current_response)
             skill_call == extract_skill_call(s.lp.current_response)
             s1 == [s EXCEPT !.lp.steps = @ + 1, !.lp.command = command,
                             !.lp.skill_call = skill_call]
         IN  IF nothing_to_do(command, skill_call) THEN LoopReturn(s)
             ELSE IF Truthy(command)
             THEN \* execute_command_from_string, lines 242-258
                  [s1 EXCEPT !.au = logged(s.au, command_execution_requested,
                                           <<"Command: ">> \o command.text, LoopUser,
                                           IF loop_require_approval
                                           THEN "require_approval: true"
                                           ELSE "require_approval: false"),
                             !.call = command.text,
                             !.lp.executed = @ + 1,
                             !.lp.required = Append(@, loop_require_approval),
                             !.lp.pc = "await_execute"]
             ELSE IF skill_call # NoSkillCall
             THEN (IF ~s.lp.skill_manager
                   THEN Observe(s1, <<"Skill Manager not initialized.">>, 1)
                   ELSE IF skill_call.name \notin SkillNames
                   THEN Observe(s1, <<"Skill '", skill_call.name, "' not found.">>, 1)
                   ELSE [s1 EXCEPT !.lp.executed = @ + 1, !.lp.pc = "await_skill"])
             ELSE Observe(s1, <<>>, 0)

\* the loop's state as one value
LoopState == [lp |-> loop, msgs |-> messages, au |-> AuditState, call |-> <<>>]

\* the values a step of the loop leaves
LoopCommit(s) ==
    /\ loop' = s.lp
    /\ messages' = s.msgs
    /\ audit_log' = s.au.audit_log
    /\ appended' = s.au.appended
    /\ last_hash' = s.au.last_hash
    /\ clock' = s.au.clock
    /\ IF s.call # <<>>
       THEN execute(LoopCallId, s.call, loop_require_approval, {})
       ELSE UNCHANGED exec_vars
    /\ UNCHANGED <<config_vars, perm_vars, aux_vars, validate_report, pipelines, verify_result>>

\* process_message calls the loop with the model's first response
LoopCall(initial_response, skill_manager) ==
    /\ loop.pc = "idle"
    /\ calls[LoopCallId].pc = "idle"
    /\ LoopCommit(LoopHead([LoopState EXCEPT
                               !.lp.current_response = initial_response,
                               !.lp.skill_manager = skill_manager]))

\* execute has returned: lines 261-279 of execute_command_from_string, then
\* lines 355-411 of the loop
LoopExecuted ==
    /\ loop.pc = "await_execute"
    /\ calls[LoopCallId].pc = "returned"
    /\ LET result == result_dict(calls[LoopCallId].result)
           s1 == [LoopState EXCEPT
                     !.au = logged(AuditState, command_executed,
                                   <<"Exit code: ", ExitText(result.exit_code)>>,
                                   LoopUser,
                                   IF result.timed_out THEN "timed_out: true"
                                   ELSE "timed_out: false"),
                     !.lp.result = result, !.lp.result_bound = TRUE]
           s2 == Observe(s1, result_output_of(result), result.exit_code)
       IN  /\ loop' = s2.lp
           /\ messages' = s2.msgs
           /\ audit_log' = s2.au.audit_log
           /\ appended' = s2.au.appended
           /\ last_hash' = s2.au.last_hash
           /\ clock' = s2.au.clock
    /\ calls' = [calls EXCEPT ![LoopCallId] = IdleCall]
    /\ UNCHANGED <<config_vars, perm_vars, aux_vars, validate_report, pipelines, verify_result, rules,
                   pending_approvals, obs, sandbox_vars>>

\* execute raised: the exception leaves execute_command_from_string and the loop
LoopExecuteRaised ==
    /\ loop.pc = "await_execute"
    /\ calls[LoopCallId].pc \in {"raised", "cancelled"}
    /\ loop' = [loop EXCEPT !.pc = "raised", !.exc = calls[LoopCallId].exc]
    /\ UNCHANGED <<config_vars, perm_vars, aux_vars, validate_report, pipelines, messages, exec_vars,
                   audit_vars>>

\* lines 376-387: skill.execute is over
LoopSkillDone(outcome) ==
    /\ loop.pc = "await_skill"
    /\ LoopCommit(CASE outcome = "success" -> Observe(LoopState, <<"d">>, 0)
                    [] outcome = "failure" ->
                          Observe(LoopState, <<"Skill Error: ", "e">>, 0)
                    [] outcome = "raise" ->
                          Observe(LoopState, <<"Skill Execution Exception: ", "e">>, 1))

\* lines 407-411: model.generate has returned; the response is added and the
\* loop is at its head again
LoopGenerated(response) ==
    /\ loop.pc = "await_generate"
    /\ LoopCommit(LoopHead([LoopState EXCEPT
                               !.lp.current_response = response,
                               !.lp.generated = @ + 1,
                               !.msgs = add_message(messages, "assistant", response)]))

\* line 407: model.generate raises; the loop has no handler
LoopGenerateRaised ==
    /\ loop.pc = "await_generate"
    /\ loop' = [loop EXCEPT !.pc = "raised", !.exc = "Exception",
                            !.generated = @ + 1]
    /\ UNCHANGED <<config_vars, perm_vars, aux_vars, validate_report, pipelines, messages, exec_vars,
                   audit_vars>>

\* the loop, the call of execute it waits for and the user who answers
NextLoop ==
    \/ \E initial_response \in InitialResponses, skill_manager \in BOOLEAN :
          LoopCall(initial_response, skill_manager)
    \/ LoopExecuted
    \/ LoopExecuteRaised
    \/ \E outcome \in SkillOutcomes : LoopSkillDone(outcome)
    \/ \E response \in Responses : LoopGenerated(response)
    \/ LoopGenerateRaised
    \/ WakePoll(LoopCallId)
    \/ DirectFinish(LoopCallId, "exit", 0, <<"o">>)
    \/ Approve(LoopCallId)
    \/ Deny(LoopCallId)
    \/ rules = DefaultRules /\ allow_command(cmd_ls)

\* main.py, lines 81-106: the strict validator; the direct mode; a conversation
\* that holds at least the two messages process_message added
InitLoop ==
    /\ level = "strict"
    /\ sandbox_enabled = FALSE
    /\ approval_timeout = MaxApprovalTimeout
    /\ allowed_volume_mounts = << >>
    /\ InitExec
    /\ messages \in {History(n) : n \in 2..MaxHistory}

SpecLoop == InitLoop /\ [][NextLoop]_vars

\* ------------------------------------------------------------------------
\* PermissionManager: export_rules, import_rules and the reads of the list
\* ------------------------------------------------------------------------
\* the values of the members of ResourceType and PermissionAction
ResourceTypeValues == {COMMAND, FILE_READ, FILE_WRITE, "network", "browser", "env_var"}
PermissionActionValues == {ALLOW, DENY, ASK}

\* a JSON value: a string, or null
JsonString(v) == [type |-> "string", value |-> v]
JsonNull == [type |-> "null", value |-> "null"]

\* json.load of a value: null is None
json_value(j) == IF j.type = "null" THEN None ELSE j.value

\* export_rules, lines 225-233: the dict of a rule holds the values of its enum
\* members, its pattern and its description (None is written as null)
rule_to_dict(rule) ==
    [resource_type |-> JsonString(rule.resource_type),
     pattern |-> JsonString(rule.pattern),
     action |-> JsonString(rule.action),
     description |-> IF rule.description = None THEN JsonNull
                     ELSE JsonString(rule.description)]

\* export_rules: one dict per rule, in the order of the list
export_rules(rule_list) == [i \in 1..Len(rule_list) |-> rule_to_dict(rule_list[i])]

\* ResourceType(value) and PermissionAction(value) raise ValueError for a value
\* that is not the value of a member
ValidRuleDict(rule_dict) ==
    /\ rule_dict.resource_type.type = "string"
    /\ rule_dict.resource_type.value \in ResourceTypeValues
    /\ rule_dict.action.type = "string"
    /\ rule_dict.action.value \in PermissionActionValues

\* add_rule_from_dict, lines 110-115: the rule built from a dict
rule_from_dict(rule_dict) ==
    Permission(CHOOSE m \in ResourceTypeValues : m = json_value(rule_dict.resource_type),
               json_value(rule_dict.pattern),
               CHOOSE m \in PermissionActionValues : m = json_value(rule_dict.action),
               json_value(rule_dict.description))

\* the loop of import_rules, lines 252-253: add_rule_from_dict for each dict,
\* up to the first one that raises
RECURSIVE add_rules_from_dicts(_, _)
add_rules_from_dicts(rule_list, rules_data) ==
    IF rules_data = << >> THEN [rules |-> rule_list, exc |-> None]
    ELSE IF ~ValidRuleDict(Head(rules_data))
         THEN [rules |-> rule_list, exc |-> "ValueError"]
         ELSE add_rules_from_dicts(Append(rule_list, rule_from_dict(Head(rules_data))),
                                   Tail(rules_data))

\* faulty variant: the list is never emptied, the import always appends
import_rules_appending(rule_list, rules_data, append) ==
    add_rules_from_dicts(rule_list, rules_data)

\* faulty variant: the list is always emptied first, the import replaces
import_rules_replacing(rule_list, rules_data, append) ==
    add_rules_from_dicts(<< >>, rules_data)

\* import_rules, lines 246-253
import_rules(rule_list, rules_data, append) ==
    add_rules_from_dicts(IF append THEN rule_list ELSE << >>, rules_data)

\* a rule with no description, as Permission(...) builds it by default
rule_read == Permission(FILE_READ, EscapedPattern(cmd_cat), ASK, None)

RuleInputs == {rule_read}

\* what check_permission is asked outside execute
CheckedTypes == {COMMAND, FILE_READ}
CheckedValues == {cmd_ls, cmd_mkfs}
CheckedDefaults == {ALLOW, ASK}

\* the longest list an import may build
MaxRuleList == 2 * Len(DefaultRules) + MaxRules

Tick == 1 - perm_call.tick

rules_unchanged_elsewhere ==
    UNCHANGED <<config_vars, aux_vars, validate_report, pipelines, loop_vars,
                pending_approvals, calls, obs, sandbox_vars, audit_vars>>

ExportRules ==
    /\ rules_file' = [written |-> TRUE, data |-> export_rules(rules), of |-> rules]
    /\ perm_call' = [NoPermCall EXCEPT !.op = "export_rules", !.tick = Tick]
    /\ UNCHANGED rules
    /\ rules_unchanged_elsewhere

ImportRules(append) ==
    /\ rules_file.written
    /\ \E r \in {import_rules(rules, rules_file.data, append)} :
          /\ Len(r.rules) <= MaxRuleList
          /\ rules' = r.rules
          /\ perm_call' = [NoPermCall EXCEPT !.op = "import_rules", !.append = append,
                                             !.changed = (r.rules # rules),
                                             !.tick = Tick]
    /\ UNCHANGED rules_file
    /\ rules_unchanged_elsewhere

CheckPermission(resource_type, resource_value, default_action) ==
    /\ perm_call' = [NoPermCall EXCEPT
                        !.op = "check_permission",
                        !.resource_type = resource_type,
                        !.value = resource_value,
                        !.default_action = default_action,
                        !.permission = check_permission(rules, resource_type,
                                                        resource_value, default_action),
                        !.tick = Tick]
    /\ UNCHANGED <<rules, rules_file>>
    /\ rules_unchanged_elsewhere

NextRules ==
    \/ \E rule \in RuleInputs : add_rule(rule)
    \/ allow_command(cmd_ls)
    \/ clear_rules
    \/ ExportRules
    \/ \E append \in BOOLEAN : ImportRules(append)
    \/ \E resource_type \in CheckedTypes, resource_value \in CheckedValues,
          default_action \in CheckedDefaults :
          CheckPermission(resource_type, resource_value, default_action)
    \/ Start(1, cmd_ls, TRUE, {})
    \/ WakePoll(1)
    \/ Approve(1)
    \/ DirectFinish(1, "exit", 0, <<"o">>)

\* strict validation, the direct mode, one poll of the approval
InitRules ==
    /\ level = "strict"
    /\ sandbox_enabled = FALSE
    /\ approval_timeout = 1
    /\ allowed_volume_mounts = << >>
    /\ InitState

SpecRules == InitRules /\ [][NextRules]_vars

\* ------------------------------------------------------------------------
\* Several calls of execute that wait for approval at once
\* ------------------------------------------------------------------------
Waiters == 1..NumWaiting

\* clear_approval called for a request from outside execute
ClearApproval(id) ==
    /\ id \in DOMAIN pending_approvals
    /\ pending_approvals' = clear_approval(pending_approvals, id)
    /\ UNCHANGED <<config_vars, side_vars, rules, calls, obs, sandbox_vars, audit_vars>>

NextApprovals ==
    \/ \E c \in Waiters : Start(c, cmd_ls, TRUE, {})
    \/ \E c \in Waiters : WakePoll(c)
    \/ \E c \in Waiters : DirectFinish(c, "exit", 0, <<"o">>)
    \/ \E id \in Waiters : Approve(id)
    \/ \E id \in Waiters : Deny(id)
    \/ \E id \in Waiters : ClearApproval(id)

\* strict validation, the direct mode, the default rules: ls is decided ASK
InitApprovals ==
    /\ level = "strict"
    /\ sandbox_enabled = FALSE
    /\ approval_timeout = MaxApprovalTimeout
    /\ allowed_volume_mounts = << >>
    /\ calls = [c \in Waiters |-> IdleCall]
    /\ obs = [c \in Waiters |-> IdleObs]
    /\ InitObjects
    /\ messages = << >>

SpecApprovals == InitApprovals /\ [][NextApprovals]_vars

\* ------------------------------------------------------------------------
\* LiteLLMProvider.generate
\* ------------------------------------------------------------------------
default_model == "m0"
FallbackModels == {"m1", "m2"}

\* fallback_models: any list of at most MaxFallbacks models, repeats included
RECURSIVE ModelLists(_)
ModelLists(n) ==
    IF n = 0 THEN {<< >>}
    ELSE ModelLists(n - 1)
            \cup {Append(l, m) : l \in {x \in ModelLists(n - 1) : Len(x) = n - 1},
                                 m \in FallbackModels}

\* how one await of acompletion inside wait_for ends: a response, a response
\* the code after the await cannot read (no usage, no choices), TimeoutError,
\* or an exception whose text names a rate limit, a missing model, or neither
CompletionOutcomes == {"response", "unreadable", "timeout", "rate limit", "not found", "other"}

\* lines 119-133: the error kept for a failed attempt
error_of(model, outcome) ==
    [type |-> CASE outcome = "timeout" -> "ModelTimeoutError"
                [] outcome = "rate limit" -> "ModelRateLimitError"
                [] outcome = "not found" -> "ModelNotFoundError"
                [] OTHER -> "ModelError",
     model |-> model]

\* faulty variant: the error of the first failure is kept
last_error_first(last_error, error) ==
    IF last_error = NoModelError THEN error ELSE last_error

\* last_error = ..., lines 120-131
last_error_set(last_error, error) == error

\* _litellm_to_response, lines 58-75
litellm_to_response(model) == [model |-> model, content |-> <<"r", model>>]

gen_unchanged_elsewhere ==
    UNCHANGED <<config_vars, perm_vars, validator_call, loggers, hb, validate_report, pipelines,
                loop_vars, exec_vars, audit_vars>>

\* generate up to its first await: models_to_try is built, lines 86-99
GenerateCall(fallback_models) ==
    /\ gen.pc = "idle"
    /\ gen' = [IdleGenerate EXCEPT !.pc = "await_completion",
                                   !.models_to_try = <<default_model>> \o fallback_models,
                                   !.i = 1]
    /\ gen_unchanged_elsewhere

\* the await of line 100 ends; the code runs on to the return, to the next
\* await, or to the raise after the loop, lines 109-137
CompletionDone(outcome) ==
    /\ gen.pc = "await_completion"
    /\ LET model == gen.models_to_try[gen.i]
           tried == [gen EXCEPT !.attempts = Append(@, [model |-> model,
                                                          outcome |-> outcome])]
       IN  IF outcome = "response"
           THEN gen' = [tried EXCEPT !.pc = "returned",
                                     !.returned = litellm_to_response(model)]
           ELSE LET failed == [tried EXCEPT
                                  !.last_error = last_error_set(gen.last_error,
                                                                error_of(model, outcome)),
                                  !.i = @ + 1]
                IN  IF failed.i <= Len(failed.models_to_try)
                    THEN gen' = failed
                    ELSE gen' = [failed EXCEPT !.pc = "raised",
                                               !.exc = failed.last_error]
    /\ gen_unchanged_elsewhere

NextGenerate ==
    \/ \E fallback_models \in ModelLists(MaxFallbacks) : GenerateCall(fallback_models)
    \/ \E outcome \in CompletionOutcomes : CompletionDone(outcome)

\* the provider as main.py builds it; the rest of the program is at rest
InitGenerate ==
    /\ level = "strict"
    /\ sandbox_enabled = FALSE
    /\ approval_timeout = 1
    /\ allowed_volume_mounts = << >>
    /\ InitState

SpecGenerate == InitGenerate /\ [][NextGenerate]_vars

\* ------------------------------------------------------------------------
\* CommandValidator.validate_command with a blacklist
\* ------------------------------------------------------------------------
cmd_long == <<"l", "s", " ", PAD>>
cmd_rM == <<"r", "M", " ", "-", "r", "f">>
cmd_pipe == <<"c", "a", "t", "|", "l", "s">>
cmd_lM == <<"l", "M">>

ValidatorCommands ==
    {cmd_ls, cmd_cat, cmd_mkfs, cmd_seq, cmd_long, cmd_rM, cmd_pipe, cmd_lM, << >>}

\* None, and lists of one or two entries
Blacklists == {<< >>, <<cmd_cat>>, << <<"m">> >>, <<cmd_seq, cmd_ls>>}

ValidateCommand(command, blacklist) ==
    /\ validator_call' = [called |-> TRUE, command |-> command, blacklist |-> blacklist,
                      result |-> validate_command_blacklist(level, command, blacklist)]
    /\ UNCHANGED <<config_vars, perm_vars, gen, loggers, hb, validate_report, pipelines,
                   loop_vars, exec_vars, audit_vars>>

NextValidator ==
    \E command \in ValidatorCommands, blacklist \in Blacklists :
        ValidateCommand(command, blacklist)

SpecValidator == Init /\ [][NextValidator]_vars

\* ------------------------------------------------------------------------
\* The wait for approval under a fair event loop: a sleep that was started
\* ends, and the sandbox returns
\* ------------------------------------------------------------------------
InitWait ==
    /\ level = "strict"
    /\ sandbox_enabled = FALSE
    /\ approval_timeout \in 0..MaxApprovalTimeout
    /\ allowed_volume_mounts = << >>
    /\ calls = [c \in Waiters |-> IdleCall]
    /\ obs = [c \in Waiters |-> IdleObs]
    /\ InitObjects
    /\ messages = << >>

SpecWait ==
    /\ InitWait
    /\ [][NextApprovals]_vars
    /\ \A c \in Waiters : WF_vars(WakePoll(c))
    /\ \A c \in Waiters : WF_vars(DirectFinish(c, "exit", 0, <<"o">>))

\* ------------------------------------------------------------------------
\* PermissionManager: the calls that add rules, with rules and files that
\* allow what the default rules deny
\* ------------------------------------------------------------------------
cmd_rm_root == <<"r", "m", " ", "-", "r", "f", " ", "/">>
cmd_dd == <<"d", "d", " ", "i", "f", "=">>

allow_everything == Permission(COMMAND, RegexPattern(<<RAny>>), ALLOW, "all")
allow_mkfs == Permission(COMMAND, RegexPattern(Lit(cmd_mkfs)), ALLOW, "mkfs")
ask_mkfs == Permission(COMMAND, EscapedPattern(cmd_mkfs), ASK, None)

AppendedRules == {allow_everything}

\* the files import_rules is given: exports, and a file whose second entry
\* names an action that does not exist
bad_action_dict ==
    [rule_to_dict(allow_mkfs) EXCEPT !.action = JsonString("permit")]

RuleFiles ==
    {export_rules(<<allow_mkfs, ask_mkfs>>),
     <<rule_to_dict(allow_mkfs), bad_action_dict>>}

\* allow_directory, lines 196-216
allow_directory(directory, write) ==
    /\ RoomForRule
    /\ LET pattern == RegexPattern(Lit(resolve(directory)) \o <<RAny>>)
           read == Permission(FILE_READ, pattern, ALLOW, "Allowed directory read")
           written == Permission(FILE_WRITE, pattern, ALLOW, "Allowed directory write")
       IN  rules' = IF write THEN rules \o <<read, written>> ELSE Append(rules, read)
    /\ UNCHANGED <<config_vars, side_vars, pending_approvals, calls, obs, sandbox_vars,
                   audit_vars>>

\* the file at filepath, written by anyone
WriteFile(data) ==
    /\ rules_file' = [written |-> TRUE, data |-> data,
                      of |-> add_rules_from_dicts(<< >>, data).rules]
    /\ perm_call' = [NoPermCall EXCEPT !.op = "write_file", !.tick = Tick]
    /\ UNCHANGED rules
    /\ rules_unchanged_elsewhere

NextAppend ==
    \/ \E rule \in AppendedRules : add_rule(rule)
    \/ allow_command(cmd_mkfs)
    \/ deny_command(cmd_ls)
    \/ \E write \in BOOLEAN : allow_directory(path_a_up_e, write)
    \/ \E data \in RuleFiles : WriteFile(data)
    \/ RoomForRule /\ ImportRules(TRUE)
    \/ \E resource_value \in {cmd_mkfs, cmd_rm_root, cmd_ls},
          default_action \in CheckedDefaults :
          CheckPermission(COMMAND, resource_value, default_action)

SpecAppend == InitRules /\ [][NextAppend]_vars

\* ------------------------------------------------------------------------
\* AuditLogger over a log that exists: the program is started again
\* ------------------------------------------------------------------------
\* faulty variant: the hash of the lowest id is taken (ORDER BY id ASC)
get_last_hash_first(rows) ==
    IF rows = << >> THEN GenesisHash ELSE rows[1].hash_chain

\* _get_last_hash, lines 268-274: ORDER BY id DESC LIMIT 1, or the genesis
\* hash when there is no row
get_last_hash(rows) ==
    IF rows = << >> THEN GenesisHash ELSE rows[Len(rows)].hash_chain

\* AuditLogger.__init__, lines 259-266, in a new process over the same
\* database; the logger of the old process is gone
NewLogger ==
    /\ loggers < MaxLoggers
    /\ loggers' = loggers + 1
    /\ last_hash' = get_last_hash(audit_log)
    /\ UNCHANGED <<config_vars, perm_vars, gen, validator_call, hb, validate_report, pipelines,
                   loop_vars, exec_vars, audit_log, clock, appended, verify_result>>

NextRestart ==
    \/ LogStep
    \/ VerifyIntegrity
    \/ NewLogger

SpecRestart == InitAudit /\ [][NextRestart]_vars

\* ------------------------------------------------------------------------
\* Properties
\* ------------------------------------------------------------------------
Started(c) == calls[c].pc # "idle"

HasContainer(c) == \E k \in containers : k.id = c

\* the sanitized command of call c passes validation
ValidCall(c) == validate_command(level, sanitize_command(calls[c].command)).is_valid

\* C1 as stated: a command that matches any DENY command rule, wherever the
\* rule stands in the list, never reaches the sandbox and is returned with
\* exit code -1.
C1_AnyDenyRuleRejects ==
    \A c \in Calls :
        obs[c].deny_any =>
            /\ obs[c].sandbox_calls = 0
            /\ calls[c].pc = "returned" => calls[c].result.exit_code = -1

\* C1 amended: a command whose first matching command rule is a DENY rule is
\* returned at once with exit code -1 and never reaches the sandbox.
C1_FirstDenyRuleRejects ==
    \A c \in Calls :
        obs[c].deny_first =>
            /\ calls[c].pc = "returned"
            /\ calls[c].result.exit_code = -1
            /\ obs[c].sandbox_calls = 0

\* a valid command was rejected by a DENY rule that was added to the defaults
C1_Witness ==
    \E c \in Calls :
        /\ obs[c].deny_first
        /\ ValidCall(c)
        /\ Len(rules) > Len(DefaultRules)
        /\ calls[c].pc = "returned"
        /\ calls[c].result.error.msg = DeniedByRules

\* C2: a command that fails validation after sanitizing is returned with exit
\* code -1 and the validation error; the sandbox is not invoked and no approval
\* request is created for it.
C2_InvalidRejected ==
    \A c \in Calls :
        (Started(c) /\ ~ValidCall(c)) =>
            /\ calls[c].pc = "returned"
            /\ calls[c].result.exit_code = -1
            /\ calls[c].result.error.msg = ValidationFailed
            /\ obs[c].sandbox_calls = 0
            /\ obs[c].approvals_created = 0
            /\ c \notin DOMAIN pending_approvals

\* an invalid command was rejected while approval was required
C2_Witness ==
    \E c \in Calls :
        /\ Started(c)
        /\ ~ValidCall(c)
        /\ calls[c].require_approval
        /\ calls[c].pc = "returned"
        /\ calls[c].result.error.msg = ValidationFailed

\* C3 as stated: once the request of a call was denied, or when the wait ran
\* to the timeout, the call is returned with exit code -1 and the "not
\* approved" error and the sandbox is not invoked, whatever is answered later.
C3_DeniedNeverRuns ==
    \A c \in Calls :
        /\ obs[c].denied_waiting =>
              /\ obs[c].sandbox_calls = 0
              /\ calls[c].pc = "returned" =>
                    /\ calls[c].result.exit_code = -1
                    /\ calls[c].result.error.msg = NotApproved
        /\ (/\ calls[c].pc = "returned"
            /\ obs[c].approvals_created = 1
            /\ calls[c].elapsed >= approval_timeout) =>
              /\ obs[c].sandbox_calls = 0
              /\ calls[c].result.exit_code = -1
              /\ calls[c].result.error.msg = NotApproved

\* C4 as stated: when the wait of a call ends while its request stands approved
\* (it was approved before the timeout had elapsed), the sandbox is invoked.
C4_ApprovedInTimeRuns ==
    [][\A c \in Calls :
          (/\ calls[c].pc = "await_approval"
           /\ get_status(pending_approvals, c) = "approved"
           /\ calls'[c].pc \notin {"await_approval", "cancelled"})
          => obs'[c].sandbox_calls = 1]_vars

C6_OverrunTimedOut ==
    \A c \in Calls :
        (calls[c].pc = "returned" /\ obs[c].overran) =>
            /\ calls[c].result.timed_out
            /\ calls[c].result.exit_code = -1
            /\ c \notin processes
            /\ ~\E k \in containers : k.id = c /\ k.status = "running"

\* every row's hash is the hash of the stored hash before it and the row's
\* event type, description and metadata
ChainHolds(rows) ==
    \A i \in 1..Len(rows) :
        rows[i].hash_chain =
            sha256(HashContent(IF i = 1 THEN GenesisHash ELSE rows[i - 1].hash_chain,
                               rows[i].event_type, rows[i].description,
                               rows[i].metadata))

\* C7: after any sequence of appends the chain holds from the genesis hash on
\* and verify_integrity returns (True, None).
C7_ChainVerifies ==
    /\ ChainHolds(audit_log)
    /\ verify_integrity(audit_log) = <<TRUE, None>>
    /\ verify_result = <<TRUE, None>>

\* two entries were appended, the second chained to the first
C7_Witness ==
    /\ Len(audit_log) >= 2
    /\ audit_log[2].hash_chain # audit_log[1].hash_chain
    /\ last_hash = audit_log[Len(audit_log)].hash_chain

\* C8 as stated: when exactly one stored field of one entry k differs from what
\* was appended, verify_integrity returns (False, k).
C8_SingleChangeDetected ==
    \A kf \in (1..Len(audit_log)) \X StoredFields :
        Changed = {kf} => verify_integrity(audit_log)[1] = FALSE
                          /\ verify_integrity(audit_log)[2] = kf[1]

\* C9 as stated: a call that has returned after an approval wait has no entry
\* in the store, and every entry of the store belongs to a call that waits.
C9_StoreHoldsOnlyWaiting ==
    /\ \A c \in Calls :
          (calls[c].pc = "returned" /\ obs[c].approvals_created = 1)
              => c \notin DOMAIN pending_approvals
    /\ \A id \in DOMAIN pending_approvals : calls[id].pc = "await_approval"

\* C10 as stated: after a call was cancelled while it waited for approval or
\* while the sandbox ran, neither its approval entry nor its container remains.
C10_CancelReleases ==
    \A c \in Calls :
        calls[c].pc = "cancelled" =>
            /\ c \notin DOMAIN pending_approvals
            /\ ~HasContainer(c)

\* C11 as stated: execute never raises to its caller; every failure of a stage
\* comes back as an ExecutionResult with error set.
C11_NeverRaises ==
    \A c \in Calls : calls[c].pc # "raised"

\* C12: when execute is called with require_approval on a valid command that no
\* command rule matches, the decision is ASK and the call creates one request,
\* pending, and has not invoked the sandbox; a call whose decision is not ASK
\* creates no request; and no request is created after the call's first step.
C12_AskCreatesOneRequest ==
    [][\A c \in Calls :
          /\ (calls[c].pc = "idle" /\ calls'[c].pc # "idle") =>
                LET command == calls'[c].sanitized
                    valid == validate_command(level, command).is_valid
                    nomatch == \A i \in 1..Len(rules) :
                                   ~CommandRuleMatches(rules, i, command)
                IN  /\ (valid /\ calls'[c].require_approval /\ nomatch) =>
                          /\ obs'[c].permission = ASK
                          /\ obs'[c].approvals_created = 1
                          /\ obs'[c].sandbox_calls = 0
                          /\ approval_timeout > 0 =>
                                /\ calls'[c].pc = "await_approval"
                                /\ get_status(pending_approvals', c) = "pending"
                    /\ obs'[c].permission # ASK =>
                          /\ obs'[c].approvals_created = 0
                          /\ pending_approvals' = pending_approvals
          /\ calls[c].pc # "idle" =>
                /\ obs'[c].approvals_created = obs[c].approvals_created
                /\ c \in DOMAIN pending_approvals' => c \in DOMAIN pending_approvals]_vars

\* a call waits on the one pending request it created
C12_Witness ==
    \E c \in Calls :
        /\ calls[c].pc = "await_approval"
        /\ calls[c].require_approval
        /\ obs[c].permission = ASK
        /\ obs[c].approvals_created = 1
        /\ obs[c].sandbox_calls = 0
        /\ get_status(pending_approvals, c) = "pending"
        /\ \A i \in 1..Len(rules) : ~CommandRuleMatches(rules, i, calls[c].sanitized)

\* C13: a call of validate_only leaves the approval store and the rule list as
\* they were, invokes no sandbox and starts no container or subprocess.
C13_ValidateOnlyFrame ==
    [][validate_report' # validate_report =>
          /\ pending_approvals' = pending_approvals
          /\ rules' = rules
          /\ obs' = obs
          /\ calls' = calls
          /\ containers' = containers
          /\ processes' = processes]_vars

\* validate_only reported that a command needs approval while a call waited
\* on a request and the rule list had grown
C13_Witness ==
    /\ validate_report # << >>
    /\ validate_report[1].needs_approval
    /\ validate_report[1].original # validate_report[1].sanitized
    /\ pending_approvals # << >>
    /\ Len(rules) > Len(DefaultRules)

\* C14: under every interleaving of the command pipelines and the other
\* appenders, each entry's hash is computed from the hash of the entry stored
\* immediately before it, the cached hash is the hash of the last entry, and
\* the chain verifies.
C14_InterleavedAppendsChain ==
    /\ ChainHolds(audit_log)
    /\ audit_log # << >> => last_hash = audit_log[Len(audit_log)].hash_chain
    /\ verify_integrity(audit_log)[1]
    /\ \A i \in 1..Len(audit_log) : audit_log[i].id = i

\* two pipelines ran interleaved: both requests were appended before either
\* result, and both results followed
C14_Witness ==
    /\ \A p \in Pipelines : pipelines[p].pc = "done"
    /\ Len(audit_log) >= 4
    /\ audit_log[1].event_type = command_execution_requested
    /\ audit_log[2].event_type = command_execution_requested
    /\ \E i, k \in 3..Len(audit_log) :
          /\ i # k
          /\ audit_log[i].event_type = command_executed
          /\ audit_log[k].event_type = command_executed

\* C15 as stated: the status of a request changes only from pending; approve
\* or deny on a request that is already approved or denied changes nothing.
C15_StatusOnlyFromPending ==
    [][\A id \in DOMAIN pending_approvals :
          (/\ pending_approvals[id].status # "pending"
           /\ id \in DOMAIN pending_approvals')
          => pending_approvals'[id].status = pending_approvals[id].status]_vars

\* `action` is the action of the first rule of the list, in insertion order,
\* that has the resource type and matches the value, or the default when no
\* rule does
FirstMatchOrDefault(rule_list, resource_type, value, default_action, action) ==
    LET match(i) == /\ rule_list[i].resource_type = resource_type
                    /\ matches_pattern(rule_list[i].pattern, value)
    IN  \/ \E i \in 1..Len(rule_list) :
              /\ match(i)
              /\ \A k \in 1..(i - 1) : ~match(k)
              /\ action = rule_list[i].action
        \/ /\ \A i \in 1..Len(rule_list) : ~match(i)
           /\ action = default_action

\* the rule list without the rules of other resource types
OnlyType(rule_list, resource_type) ==
    SelectSeq(rule_list, LAMBDA rule : rule.resource_type = resource_type)

\* C16: every check_permission call of execute (default ASK or ALLOW) and of
\* validate_only (default ASK) returns the action of the first command rule, in
\* insertion order, whose pattern matches, or the default if there is none;
\* the same holds with the rules of the other resource types taken away.
C16_FirstMatchWins ==
    [][/\ \A c \in Calls :
             (calls[c].pc = "idle" /\ obs'[c].permission # None) =>
                LET default_action == IF calls'[c].require_approval THEN ASK ELSE ALLOW
                IN  /\ FirstMatchOrDefault(rules, COMMAND, calls'[c].sanitized,
                                           default_action, obs'[c].permission)
                    /\ FirstMatchOrDefault(OnlyType(rules, COMMAND), COMMAND,
                                           calls'[c].sanitized, default_action,
                                           obs'[c].permission)
       /\ validate_report' # validate_report =>
             /\ FirstMatchOrDefault(rules, COMMAND, validate_report'[1].sanitized,
                                    ASK, validate_report'[1].permission)
             /\ FirstMatchOrDefault(OnlyType(rules, COMMAND), COMMAND,
                                    validate_report'[1].sanitized, ASK,
                                    validate_report'[1].permission)]_vars

\* a command got ALLOW from the second added rule although a DENY rule for
\* file writes with the same pattern stands before it
C16_Witness ==
    \E c \in Calls :
        /\ obs[c].permission = ALLOW
        /\ calls[c].require_approval
        /\ calls[c].sanitized = cmd_ls
        /\ Len(rules) = Len(DefaultRules) + 2
        /\ rules[Len(DefaultRules) + 1].resource_type = FILE_WRITE
        /\ rules[Len(DefaultRules) + 1].action = DENY
        /\ matches_pattern(rules[Len(DefaultRules) + 1].pattern, cmd_ls)
        /\ rules[Len(DefaultRules) + 2].resource_type = COMMAND
        /\ rules[Len(DefaultRules) + 2].action = ALLOW

\* the rule deny_command(literal) appends
IsDenyCommandRule(rule, literal) ==
    rule = Permission(COMMAND, EscapedPattern(literal), DENY, "Auto-denied")

\* the values check_permission is asked about
Values == {sanitize_command(command) : command \in Commands}

Inside(host_path, allowed_path) ==
    LET host == Components(resolve(host_path), 1, <<>>)
        dir == Components(resolve(allowed_path), 1, <<>>)
    IN  /\ Len(dir) <= Len(host)
        /\ SubSeq(host, 1, Len(dir)) = dir

\* C18 as stated: a container is created only if every requested host path
\* resolves to an allowed path or to a path inside an allowed path.
C18_OnlyAllowedMounts ==
    \A c \in Calls :
        obs[c].created =>
            \A host_path \in calls[c].volumes :
                \E i \in 1..Len(allowed_volume_mounts) :
                    Inside(host_path, allowed_volume_mounts[i])

\* C19: the command handed to the sandbox is the sanitized text of the input,
\* the same text that validate_command and check_permission were given and
\* that the approval request carries; when sanitizing changes the input, the
\* input as written is never handed to the sandbox.
C19_SanitizedEverywhere ==
    \A c \in Calls :
        calls[c].pc # "idle" =>
            LET sanitized == sanitize_command(calls[c].command) IN
            /\ obs[c].validated = <<sanitized>>
            /\ obs[c].checked \in {<< >>, <<sanitized>>}
            /\ \A i \in 1..Len(obs[c].sandbox_commands) :
                  /\ obs[c].sandbox_commands[i] = sanitized
                  /\ obs[c].checked = <<sanitized>>
                  /\ calls[c].command # sanitized =>
                        obs[c].sandbox_commands[i] # calls[c].command
            /\ c \in DOMAIN pending_approvals =>
                  pending_approvals[c].command = sanitized

\* an input that sanitizing changes was approved and reached the sandbox
C19_Witness ==
    \E c \in Calls :
        /\ calls[c].command = cmd_raw
        /\ calls[c].command # sanitize_command(calls[c].command)
        /\ obs[c].approvals_created = 1
        /\ obs[c].sandbox_commands = <<cmd_ls>>

\* C20: a call of execute with require_approval false creates no approval
\* request and never waits for one; when its command is valid and matches no
\* DENY rule the sandbox is invoked exactly once, and the exit code and the
\* timed_out flag the call returns are those the sandbox returned.
C20_NoApprovalWhenNotRequired ==
    \A c \in Calls :
        (calls[c].pc # "idle" /\ ~calls[c].require_approval) =>
            /\ obs[c].approvals_created = 0
            /\ calls[c].pc # "await_approval"
            /\ c \notin DOMAIN pending_approvals
            /\ (ValidCall(c) /\ ~obs[c].deny_any) =>
                  /\ obs[c].sandbox_calls = 1
                  /\ Len(obs[c].sandbox_commands) = 1
                  /\ calls[c].pc = "returned" =>
                        /\ calls[c].result.exit_code = obs[c].sandbox_result.exit_code
                        /\ calls[c].result.timed_out = obs[c].sandbox_result.timed_out

\* a call without require_approval whose decision was ASK went straight to the
\* sandbox and returned the sandbox's exit code
C20_Witness ==
    \E c \in Calls :
        /\ calls[c].pc = "returned"
        /\ ~calls[c].require_approval
        /\ obs[c].permission = ASK
        /\ obs[c].approvals_created = 0
        /\ obs[c].sandbox_calls = 1
        /\ calls[c].result.exit_code = 0
        /\ obs[c].sandbox_result.exit_code = 0

\* a text holds something that a secret pattern matches
HasSecret(text) ==
    \E i \in 1..Len(text) : text[i] \in {OPENAI_KEY, HEX_ID}

\* C21: no text field of a result that execute returned (stdout, stderr, error)
\* holds a substring that a secret pattern matches.  (The other error texts are
\* made of the validator's own reasons and of fixed strings.)
C21_NoSecretReturned ==
    \A c \in Calls :
        calls[c].pc = "returned" =>
            /\ ~HasSecret(calls[c].result.stdout)
            /\ ~HasSecret(calls[c].result.stderr)
            /\ calls[c].result.error.msg = "Docker error" =>
                  ~HasSecret(calls[c].result.error.detail)

\* C22: one invocation of the loop takes at most max_autonomous_steps steps,
\* sends at most that many directives for execution and gets at most that many
\* further model responses; when it returns at the limit, what it returns is
\* the last model response, which is the last message of the conversation, and
\* the directive in it has not been executed.
C22_StepLimit ==
    /\ loop.steps <= max_autonomous_steps
    /\ loop.executed <= loop.steps
    /\ loop.generated <= loop.steps
    /\ Len(loop.required) <= max_autonomous_steps
    /\ (loop.pc = "returned" /\ loop.steps = max_autonomous_steps) =>
          /\ loop.returned = loop.current_response
          /\ loop.generated = max_autonomous_steps
          /\ messages[Len(messages)].role = "assistant"
          /\ messages[Len(messages)].content = loop.returned
          /\ calls[LoopCallId].pc = "idle"

\* the loop returned at the limit a response that holds a command
C22_Witness ==
    /\ loop.pc = "returned"
    /\ loop.steps = max_autonomous_steps
    /\ loop.generated = max_autonomous_steps
    /\ loop.returned = resp_ls
    /\ loop.executed = max_autonomous_steps

\* a text holds a fenced bash or sh block
HasBlock(text) ==
    \E i \in 1..Len(text), j \in 1..Len(text) :
        i < j /\ text[i] \in {FENCE_BASH, FENCE_SH} /\ text[j] = FENCE_END

\* a text holds a skill call
HasCall(text) ==
    \E i \in 1..Len(text), j \in 1..Len(text) :
        i < j /\ text[i] = CALL_OPEN /\ text[j] = CALL_CLOSE

\* C23: when the loop comes to its head with a response that holds neither a
\* fenced bash/sh block nor a skill call, it returns that response in the same
\* step: no step is counted, nothing is sent to the executor, no observation is
\* added, nothing is logged and no model call is pending.
C23_NoDirectiveReturns ==
    [][(/\ loop.pc \in {"idle", "await_generate"}
        /\ loop' # loop
        /\ ~HasBlock(loop'.current_response)
        /\ ~HasCall(loop'.current_response)) =>
           /\ loop'.pc = "returned"
           /\ loop'.returned = loop'.current_response
           /\ loop'.steps = loop.steps
           /\ loop'.executed = loop.executed
           /\ loop'.observation = loop.observation
           /\ calls' = calls
           /\ audit_log' = audit_log
           /\ \A i \in 1..Len(messages') : messages'[i].role = "user" =>
                 i <= Len(messages) /\ messages'[i] = messages[i]]_vars

\* after one command step the model answered without a directive and the loop
\* returned that answer
C23_Witness ==
    /\ loop.pc = "returned"
    /\ loop.steps = 1
    /\ loop.generated = 1
    /\ loop.returned = resp_done
    /\ ~HasBlock(loop.returned)
    /\ ~HasCall(loop.returned)

\* C24: the step in which the loop takes up the result of a command adds one
\* user message that holds the command's exit code and its output, and leaves
\* the loop waiting for the next model response, which has not been requested
\* before; while execute has not returned nothing is added.
C24_ObservationBeforeNextResponse ==
    [][/\ (loop.pc = "await_execute" /\ loop'.pc # "await_execute") =>
             IF calls[LoopCallId].pc = "returned"
             THEN LET result == calls[LoopCallId].result
                      row == messages'[Len(messages')]
                  IN  /\ loop'.pc = "await_generate"
                      /\ Len(messages') = Len(messages) + 1
                      /\ row.role = "user"
                      /\ Contains(row.content,
                                  <<"Exit Code: ", ExitText(result.exit_code)>>)
                      /\ Contains(row.content, <<"Output:">> \o result.stdout)
                      /\ loop'.generated = loop.generated
             ELSE messages' = messages
       /\ (loop.pc = "await_execute" /\ loop'.pc = "await_execute") =>
             messages' = messages
       /\ (loop'.pc = "await_generate" /\ loop.pc # "await_generate") =>
             messages'[Len(messages')].content =
                 <<"System Action Result:">> \o loop'.observation]_vars

\* the loop waits for the model with the observation of a command that ran
\* and exited with 0 as the last message
C24_Witness ==
    /\ loop.pc = "await_generate"
    /\ loop.command.found
    /\ loop.result_bound
    /\ loop.result.exit_code = 0
    /\ obs[LoopCallId].sandbox_calls = 1
    /\ Contains(messages[Len(messages)].content, <<"Exit Code: ", "0", "Output:", "o">>)

\* C25: a step whose directive is a skill call (no command in the response)
\* does not end with an exception of the loop's own: it leaves the loop waiting
\* for the skill or, with the observation added, for the next model response.
C25_SkillStepContinues ==
    (/\ loop.steps > 0
     /\ ~Truthy(loop.command)
     /\ loop.skill_call # NoSkillCall) =>
        /\ ~(loop.pc = "raised" /\ loop.exc = "UnboundLocalError")
        /\ loop.pc = "await_generate" =>
              messages[Len(messages)].content =
                  <<"System Action Result:">> \o loop.observation

\* C26: the context given to a model call is the most recent context_window
\* messages of the conversation, so it holds the observation just added.
C26_ContextIsMostRecent ==
    loop.pc = "await_generate" =>
        LET n == Len(messages)
            first == IF n > context_window THEN n - context_window + 1 ELSE 1
        IN  /\ loop.context = SubSeq(messages, first, n)
            /\ \E i \in 1..Len(loop.context) : loop.context[i] = messages[n]

\* no ALLOW rule for commands matches the value
NoAllowMatch(rule_list, value) ==
    \A i \in 1..Len(rule_list) :
        rule_list[i].action = ALLOW => ~CommandRuleMatches(rule_list, i, value)

\* C27: every command the loop sends to the executor is sent with
\* require_approval, and a command that matches no ALLOW rule enters the sandbox
\* only in a step of a call that waits on its own request and finds it approved.
C27_LoopCommandsNeedApproval ==
    [][/\ \A i \in 1..Len(loop'.required) : loop'.required[i]
       /\ (calls[LoopCallId].pc = "idle" /\ calls'[LoopCallId].pc # "idle") =>
             calls'[LoopCallId].require_approval
       /\ LET entered ==
                 IF calls[LoopCallId].pc = "idle"
                 THEN calls'[LoopCallId].pc # "idle" /\ obs'[LoopCallId].sandbox_calls > 0
                 ELSE obs'[LoopCallId].sandbox_calls > obs[LoopCallId].sandbox_calls
          IN  (entered /\ NoAllowMatch(rules, calls'[LoopCallId].sanitized)) =>
                 /\ calls[LoopCallId].pc = "await_approval"
                 /\ obs[LoopCallId].approvals_created = 1
                 /\ get_status(pending_approvals, LoopCallId) = "approved"]_vars

\* a command of the loop ran after its request was approved
C27_Witness ==
    /\ loop.pc = "await_generate"
    /\ loop.required = <<TRUE>>
    /\ loop.result.exit_code = 0
    /\ obs[LoopCallId].approvals_created = 1
    /\ obs[LoopCallId].sandbox_calls = 1
    /\ NoAllowMatch(rules, cmd_ls)


\* every list one whole mutation can leave: add_rule of one rule, clear_rules,
\* import_rules of the written file
WholeMutations(rule_list, file) ==
    {Append(rule_list, rule) :
        rule \in RuleInputs \cup {Permission(COMMAND, EscapedPattern(cmd_ls), ALLOW,
                                             "Auto-allowed")}}
    \cup {load_default_rules(<< >>)}
    \cup (IF file.written
          THEN {add_rules_from_dicts(IF append THEN rule_list ELSE << >>, file.data).rules :
                   append \in BOOLEAN}
          ELSE {})

\* C28: the rule list is only ever seen before or after a whole mutation:
\* every change of the list is one complete add_rule, clear_rules or
\* import_rules, and every check_permission call, made directly or by execute,
\* leaves the list alone and returns the first-match decision on the list as it
\* stood when the call was made; the emptied list inside clear_rules is never
\* read.
C28_ChecksSeeWholeLists ==
    [][/\ rules' # rules => rules' \in WholeMutations(rules, rules_file)
       /\ (perm_call'.tick # perm_call.tick /\ perm_call'.op = "check_permission") =>
             /\ rules' = rules
             /\ perm_call'.permission =
                   check_permission(rules, perm_call'.resource_type, perm_call'.value,
                                    perm_call'.default_action)
       /\ \A c \in Calls :
             (calls[c].pc = "idle" /\ calls'[c].pc # "idle" /\ obs'[c].permission # None) =>
                /\ rules' = rules
                /\ obs'[c].permission =
                      check_permission(rules, COMMAND, calls'[c].sanitized,
                                       IF calls'[c].require_approval THEN ASK ELSE ALLOW)
      ]_vars

\* a call of execute that was allowed by a rule is still running, clear_rules has
\* run since, and a check made after it gets the decision of the default list
C28_Witness ==
    /\ calls[1].pc = "await_direct"
    /\ obs[1].permission = ALLOW
    /\ rules = DefaultRules
    /\ perm_call.op = "check_permission"
    /\ perm_call.value = cmd_ls
    /\ perm_call.default_action = ASK
    /\ perm_call.permission = ASK

\* C30: import_rules with append = false of the file export_rules wrote leaves
\* the rule list that was exported, rule for rule and in the same order, and
\* check_permission decides every request on it as on the exported list.
C30_RoundTrip ==
    [][(/\ perm_call'.tick # perm_call.tick
        /\ perm_call'.op = "import_rules"
        /\ ~perm_call'.append) =>
          /\ rules' = rules_file.of
          /\ \A resource_type \in ResourceTypeValues, resource_value \in Commands,
                default_action \in PermissionActionValues :
                check_permission(rules', resource_type, resource_value, default_action)
                   = check_permission(rules_file.of, resource_type, resource_value,
                                      default_action)
      ]_vars

\* the import replaced a different list by the exported one, which holds added
\* rules, one of them without a description
C30_Witness ==
    /\ perm_call.op = "import_rules"
    /\ ~perm_call.append
    /\ perm_call.changed
    /\ rules = rules_file.of
    /\ Len(rules) = Len(DefaultRules) + 2
    /\ \E i \in 1..Len(rules) : rules[i].description = None
    /\ \E i \in 1..Len(rules) : rules[i].action = ALLOW


\* the request of id is touched by the step: created, resolved or removed
RequestChanged(id) ==
    \/ (id \in DOMAIN pending_approvals) # (id \in DOMAIN pending_approvals')
    \/ /\ id \in DOMAIN pending_approvals
       /\ id \in DOMAIN pending_approvals'
       /\ pending_approvals'[id] # pending_approvals[id]

\* C29: with several calls waiting, a step that creates, approves, denies or
\* clears one request leaves every other request as it was, and a waiting call
\* goes on to the sandbox only in a poll that read status approved on the
\* request of its own id.
C29_RequestsAreSeparate ==
    [][/\ \A id \in Waiters, other \in Waiters :
             (id # other /\ RequestChanged(id)) => ~RequestChanged(other)
       /\ \A c \in Waiters :
             (calls[c].pc = "await_approval" /\ obs'[c].sandbox_calls > obs[c].sandbox_calls) =>
                /\ get_status(pending_approvals, c) = "approved"
                /\ c \notin DOMAIN pending_approvals'
      ]_vars

\* two calls waited at once; the first was approved and runs in the sandbox,
\* the second still waits on its pending request
C29_Witness ==
    /\ calls[1].pc = "await_direct"
    /\ obs[1].sandbox_calls = 1
    /\ calls[2].pc = "await_approval"
    /\ get_status(pending_approvals, 2) = "pending"
    /\ 1 \notin DOMAIN pending_approvals


Failed(attempt) == attempt.outcome # "response"

\* C31: the models are called in the order default, then the fallbacks as
\* listed; no model is called after one has answered; generate returns the
\* answer of the model called last, which is the first that answered; it
\* raises only after every model of the list was called and failed, and what
\* it raises is the error made for the last of them.
C31_FallbackOrder ==
    LET n == Len(gen.attempts)
    IN  /\ \A k \in 1..n : gen.attempts[k].model = gen.models_to_try[k]
        /\ \A k \in 1..(n - 1) : Failed(gen.attempts[k])
        /\ gen.pc = "await_completion" => \A k \in 1..n : Failed(gen.attempts[k])
        /\ gen.pc = "returned" =>
              /\ n >= 1
              /\ ~Failed(gen.attempts[n])
              /\ gen.returned = litellm_to_response(gen.models_to_try[n])
        /\ gen.pc = "raised" =>
              /\ n = Len(gen.models_to_try)
              /\ \A k \in 1..n : Failed(gen.attempts[k])
              /\ gen.exc = error_of(gen.models_to_try[n], gen.attempts[n].outcome)

\* three models, the first two failed in different ways, the third answered
C31_Witness ==
    /\ gen.pc = "returned"
    /\ Len(gen.models_to_try) = 3
    /\ Len(gen.attempts) = 3
    /\ gen.attempts[1].outcome = "timeout"
    /\ gen.attempts[2].outcome = "rate limit"
    /\ gen.returned.model = gen.models_to_try[3]


\* C32: a result with is_valid = TRUE is given only for a command that no
\* dangerous pattern matches, that contains no entry of the blacklist, that
\* contains no shell operator if the level is strict, and that is at most
\* 10000 characters long; a result of risk level critical or high has
\* is_valid = FALSE.
C32_ValidMeansClean ==
    validator_call.called =>
        /\ validator_call.result.is_valid =>
              /\ \A i \in 1..Len(DANGEROUS_PATTERNS) :
                    ~ReSearch(DANGEROUS_PATTERNS[i], validator_call.command, TRUE)
              /\ \A i \in 1..Len(validator_call.blacklist) :
                    ~Contains(validator_call.command, validator_call.blacklist[i])
              /\ level = "strict" =>
                    \A i \in 1..Len(SUSPICIOUS_OPERATORS) :
                        ~Contains(validator_call.command, SUSPICIOUS_OPERATORS[i])
              /\ TextLen(validator_call.command) <= MaxCommandLength
        /\ validator_call.result.risk_level \in {"critical", "high"} =>
              ~validator_call.result.is_valid

\* a blacklist was given and the command got through all four checks of the
\* strict level
C32_Witness ==
    /\ level = "strict"
    /\ validator_call.called
    /\ validator_call.command = cmd_ls
    /\ validator_call.blacklist = <<cmd_cat>>
    /\ validator_call.result.is_valid


\* C33: the wait reads the status of the request at most approval_timeout
\* times; a call whose request was never answered is returned "not approved"
\* after exactly that many reads and seconds; and every call that waits for
\* approval leaves the wait and ends, given that each sleep ends and the
\* sandbox call ends (it is returned unless the sandbox call raised).
C33_WaitEnds ==
    /\ [](\A c \in Waiters :
             /\ obs[c].status_reads <= approval_timeout
             /\ calls[c].elapsed <= approval_timeout)
    /\ [][\A c \in Waiters :
             (/\ calls'[c].pc = "returned"
              /\ obs'[c].approvals_created = 1
              /\ \/ calls[c].pc = "idle"
                 \/ calls[c].pc = "await_approval"
                    /\ get_status(pending_approvals, c) \in {"pending", None}) =>
                /\ calls'[c].elapsed = approval_timeout
                /\ obs'[c].status_reads = approval_timeout
                /\ obs'[c].sandbox_calls = 0
                /\ calls'[c].result = Rejection(Error(NotApproved, <<>>))
                /\ c \notin DOMAIN pending_approvals'
      ]_vars
    /\ \A c \in Waiters :
          (calls[c].pc = "await_approval") ~> (calls[c].pc \in {"returned", "raised"})

\* a call waited the whole timeout of two seconds, read the status twice and
\* was returned "not approved", while the other call still waits
C33_Witness ==
    /\ approval_timeout = 2
    /\ calls[1].pc = "returned"
    /\ calls[1].elapsed = 2
    /\ obs[1].status_reads = 2
    /\ ~obs[1].denied_waiting
    /\ calls[1].result = Rejection(Error(NotApproved, <<>>))
    /\ calls[2].pc = "await_approval"


\* the value matches one of the built-in DENY rules for commands
MatchesDefaultDeny(value) ==
    \E i \in 1..Len(DefaultRules) :
        /\ DefaultRules[i].resource_type = COMMAND
        /\ DefaultRules[i].action = DENY
        /\ matches_pattern(DefaultRules[i].pattern, value)

C35_TimedOutMeansOverran ==
    \A c \in Calls :
        (calls[c].pc = "returned" /\ calls[c].result.timed_out) => obs[c].overran


\* C36: the cached hash of the logger is the stored hash of the entry with the
\* highest id, the genesis hash when the log is empty, also after a new logger
\* was constructed over the log; the log verifies, and what verify_integrity
\* returned last is (True, None).
C36_CachedHashIsLastStored ==
    /\ last_hash = (IF audit_log = << >> THEN GenesisHash
                    ELSE audit_log[Len(audit_log)].hash_chain)
    /\ verify_integrity(audit_log) = <<TRUE, None>>
    /\ verify_result = <<TRUE, None>>
    /\ \A k \in 1..Len(audit_log) :
          audit_log[k].hash_chain =
             compute_hash(IF k = 1 THEN GenesisHash ELSE audit_log[k - 1].hash_chain,
                          audit_log[k].event_type, audit_log[k].description,
                          audit_log[k].metadata)

\* a second logger was constructed over the log; the log is full and the
\* cached hash is that of its last entry, not of its first
C36_Witness ==
    /\ loggers = 2
    /\ Len(audit_log) = MaxLog
    /\ audit_log[1].hash_chain # audit_log[MaxLog].hash_chain
    /\ last_hash = audit_log[MaxLog].hash_chain


\* C37: the autonomous_step entry written at the end of a loop step records
\* the exit code of the action of that step: when the loop goes on to the
\* model call, the last audit entry is the step's entry and its metadata holds
\* the step's exit code.
C37_StepEntryHoldsStepExitCode ==
    loop.pc = "await_generate" =>
        /\ audit_log # << >>
        /\ audit_log[Len(audit_log)].event_type = <<"autonomous_step">>
        /\ audit_log[Len(audit_log)].metadata = json_dumps(ExitText(loop.exit_code))


\* the report validate_only gives in the state a call of execute starts in
ReportFor(command) == validate_only(rules, pending_approvals, level, command).report

\* call c of execute starts in this step with require_approval = true
StartsRequired(c) ==
    /\ calls[c].pc = "idle"
    /\ calls'[c].pc # "idle"
    /\ calls'[c].require_approval

\* C38 as stated: validate_only reports is_valid = false exactly for the
\* commands execute rejects at validation, and needs_approval = true exactly
\* for the commands on which execute with require_approval = true gets the
\* decision ASK from the permission check.
C38_ReportMatchesExecute ==
    [][\A c \in Calls :
          StartsRequired(c) =>
              /\ ~ReportFor(calls'[c].command).is_valid
                    <=> /\ calls'[c].pc = "returned"
                        /\ calls'[c].result.error.msg = ValidationFailed
              /\ ReportFor(calls'[c].command).needs_approval
                    <=> obs'[c].permission = ASK]_vars

\* C38 amended: validate_only reports is_valid = false exactly for the
\* commands execute rejects at validation; for a command that passes
\* validation, needs_approval is true exactly when execute with
\* require_approval = true gets the decision ASK and requests an approval; for
\* a command that fails validation execute makes no permission check, while
\* validate_only still reports the result of the lookup.
C38_ReportMatchesExecuteWhenValid ==
    [][\A c \in Calls :
          StartsRequired(c) =>
              /\ ~ReportFor(calls'[c].command).is_valid
                    <=> /\ calls'[c].pc = "returned"
                        /\ calls'[c].result.error.msg = ValidationFailed
              /\ ReportFor(calls'[c].command).is_valid =>
                    /\ ReportFor(calls'[c].command).needs_approval
                          <=> obs'[c].permission = ASK
                    /\ ReportFor(calls'[c].command).needs_approval
                          <=> obs'[c].approvals_created = 1
              /\ ~ReportFor(calls'[c].command).is_valid =>
                    /\ obs'[c].permission = None
                    /\ obs'[c].checked = << >>
                    /\ obs'[c].approvals_created = 0]_vars

\* validate_only reported that a valid command needs approval, and execute was
\* called on the same command with require_approval = true, got ASK and
\* created its request
C38_Witness ==
    /\ validate_report # << >>
    /\ validate_report[1].is_valid
    /\ validate_report[1].needs_approval
    /\ \E c \in Calls :
          /\ calls[c].pc # "idle"
          /\ calls[c].require_approval
          /\ calls[c].command = validate_report[1].original
          /\ obs[c].permission = ASK
          /\ obs[c].approvals_created = 1


\* ------------------------------------------------------------------------
\* HeartbeatScheduler: the tasks, the loop task and the wall clock
\* ------------------------------------------------------------------------
\* the minutes of a day, and the last minute of the clock
DayLen == 4
MaxNow == 5
MaxTasks == 2

TaskIds == {"a", "b"}

\* a cron expression "*/p * * * *" is its period p in minutes; 0 stands for
\* an expression croniter rejects
Schedules == {0, 1, 2}

\* the quiet hours main.py 144-145 hands over: none, within a day, over midnight
QuietHours == {<<NoTime, NoTime>>, <<1, 2>>, <<3, 0>>}

\* HeartbeatTask, lines 14-22: the dataclass's fields are id, name, schedule,
\* action, enabled and lastRun; an instance has no attribute last_run until
\* one is assigned (has_last_run); added_at is the minute add_task ran (history)
HeartbeatTask(id, schedule, added_at) ==
    [id |-> id, schedule |-> schedule, enabled |-> TRUE, lastRun |-> NoTime,
     has_last_run |-> FALSE, last_run |-> NoTime, added_at |-> added_at]

\* _is_quiet_hours, lines 104-115
is_quiet_hours(h) ==
    IF h.quiet_hours_start = NoTime \/ h.quiet_hours_end = NoTime
    THEN FALSE
    ELSE LET now == h.now % DayLen
         IN  IF h.quiet_hours_start < h.quiet_hours_end
             THEN h.quiet_hours_start <= now /\ now <= h.quiet_hours_end
             ELSE now >= h.quiet_hours_start \/ now <= h.quiet_hours_end

\* croniter(schedule, base).get_next: the first cron time after the base
cron_next(schedule, base) == ((base \div schedule) + 1) * schedule

\* _check_and_run_tasks, lines 124-138, from task i on, up to the first await,
\* the return or the exception: reading task.last_run at line 129 raises
\* AttributeError when the instance has no such attribute, and line 129 is
\* outside the try of lines 133-138
RECURSIVE check_tasks(_, _)
check_tasks(h, i) ==
    IF i > Len(h.tasks) THEN [pc |-> "returned", current |-> 0]
    ELSE IF ~h.tasks[i].enabled THEN check_tasks(h, i + 1)
    ELSE IF ~h.tasks[i].has_last_run THEN [pc |-> "AttributeError", current |-> i]
    ELSE LET base == IF h.tasks[i].last_run # NoTime
                     THEN h.tasks[i].last_run ELSE h.now
             next_run == cron_next(h.tasks[i].schedule, base)
         IN  IF next_run <= h.now
             THEN [pc |-> "await_action", current |-> i]
             ELSE check_tasks(h, i + 1)

\* _check_and_run_tasks, lines 117-138
check_and_run_tasks(h) ==
    IF ~h.enabled \/ is_quiet_hours(h)
    THEN [pc |-> "returned", current |-> 0]
    ELSE check_tasks(h, 1)

\* stop, lines 155-167: the loop task is cancelled and awaited; a task that
\* ended with an exception hands it to the await, and only CancelledError is
\* caught there
stop_task(h) ==
    IF h.task = "raised"
    THEN [h EXCEPT !.running = FALSE, !.raised = h.loop_exc]
    ELSE [h EXCEPT !.running = FALSE, !.task = "None", !.current = 0,
                   !.raised = "None"]

\* remove_task, lines 88-102: the first task with the id goes
RECURSIVE remove_task(_, _)
remove_task(tasks, task_id) ==
    IF tasks = << >> THEN << >>
    ELSE IF Head(tasks).id = task_id THEN Tail(tasks)
    ELSE <<Head(tasks)>> \o remove_task(Tail(tasks), task_id)

hb_unchanged_elsewhere ==
    UNCHANGED <<config_vars, perm_vars, gen, validator_call, loggers, validate_report,
                pipelines, loop_vars, exec_vars, audit_vars>>

\* main.py 142-146: HeartbeatScheduler(enabled, quiet_hours_start, quiet_hours_end)
NewScheduler(enabled, quiet_hours) ==
    /\ ~hb.constructed
    /\ hb' = [NoScheduler EXCEPT !.constructed = TRUE, !.enabled = enabled,
                                 !.quiet_hours_start = quiet_hours[1],
                                 !.quiet_hours_end = quiet_hours[2],
                                 !.now = hb.now]
    /\ hb_unchanged_elsewhere

\* add_task, lines 57-86
AddTask(task_id, schedule) ==
    /\ hb.constructed
    /\ Len(hb.tasks) < MaxTasks
    /\ hb' = IF schedule = 0
             THEN [hb EXCEPT !.raised = "ValueError"]
             ELSE [hb EXCEPT !.tasks = Append(@, HeartbeatTask(task_id, schedule, hb.now)),
                             !.raised = "None"]
    /\ hb_unchanged_elsewhere

\* remove_task
RemoveTask(task_id) ==
    /\ hb.constructed
    /\ hb' = [hb EXCEPT !.tasks = remove_task(@, task_id), !.raised = "None"]
    /\ hb_unchanged_elsewhere

\* start, lines 147-153
StartHeartbeat ==
    /\ hb.constructed
    /\ hb' = IF hb.running
             THEN [hb EXCEPT !.raised = "None"]
             ELSE [hb EXCEPT !.running = TRUE, !.task = "created", !.loop_exc = "None",
                             !.current = 0, !.raised = "None"]
    /\ hb_unchanged_elsewhere

\* stop
StopHeartbeat ==
    /\ hb.constructed
    /\ hb' = IF ~hb.running THEN [hb EXCEPT !.raised = "None"] ELSE stop_task(hb)
    /\ hb_unchanged_elsewhere

\* _heartbeat_loop, lines 140-145: the loop task runs for the first time or
\* its sleep of a minute is over; one pass of the loop up to its next await
HeartbeatLoop ==
    /\ hb.task \in {"created", "sleeping"}
    /\ hb.task = "sleeping" => hb.now >= hb.wake_at
    /\ \E r \in {check_and_run_tasks(hb)} :
          hb' = IF ~hb.running THEN [hb EXCEPT !.task = "done"]
                ELSE IF r.pc = "returned"
                THEN [hb EXCEPT !.task = "sleeping", !.wake_at = hb.now + 1]
                ELSE IF r.pc = "AttributeError"
                THEN [hb EXCEPT !.task = "raised", !.loop_exc = "AttributeError",
                                !.current = r.current]
                ELSE [hb EXCEPT !.task = "await_action", !.current = r.current]
    /\ hb_unchanged_elsewhere

\* a minute passes
TimePasses ==
    /\ hb.now < MaxNow
    /\ hb' = [hb EXCEPT !.now = @ + 1]
    /\ hb_unchanged_elsewhere

NextHeartbeat ==
    \/ \E enabled \in BOOLEAN, quiet_hours \in QuietHours :
          NewScheduler(enabled, quiet_hours)
    \/ \E task_id \in TaskIds, schedule \in Schedules : AddTask(task_id, schedule)
    \/ \E task_id \in TaskIds : RemoveTask(task_id)
    \/ StartHeartbeat
    \/ StopHeartbeat
    \/ HeartbeatLoop
    \/ TimePasses

InitHeartbeat ==
    /\ level = "strict"
    /\ sandbox_enabled = FALSE
    /\ approval_timeout = 1
    /\ allowed_volume_mounts = << >>
    /\ InitState

\* the event loop runs a task that is ready, and time passes
SpecHeartbeat ==
    /\ InitHeartbeat
    /\ [][NextHeartbeat]_vars
    /\ WF_vars(HeartbeatLoop)
    /\ WF_vars(TimePasses)

\* a cron time of the task has come: one lies after the minute the task ran
\* last (the minute it was added when it has not run) and not after now
CronTimeHasCome(task) ==
    \E t \in 1..MaxNow :
        /\ t % task.schedule = 0
        /\ t > (IF task.has_last_run /\ task.last_run # NoTime
                THEN task.last_run ELSE task.added_at)
        /\ t <= hb.now

\* the scheduler holds a task with the id whose cron time has come
Due(task_id) ==
    \E i \in 1..Len(hb.tasks) :
        hb.tasks[i].id = task_id /\ CronTimeHasCome(hb.tasks[i])

\* the scheduler is running, enabled and outside quiet hours, and holds an
\* enabled task with the id
Scheduling(task_id) ==
    /\ hb.constructed
    /\ hb.running
    /\ hb.enabled
    /\ ~is_quiet_hours(hb)
    /\ \E i \in 1..Len(hb.tasks) : hb.tasks[i].id = task_id /\ hb.tasks[i].enabled

\* the loop task awaits the action of a task with the id
ActionRuns(task_id) ==
    /\ hb.task = "await_action"
    /\ hb.tasks[hb.current].id = task_id

\* C39: while the scheduler is running, enabled and outside quiet hours, an
\* enabled task whose cron time has come (with a minute of the clock left for
\* the loop's next pass) is eventually run, unless before that the scheduler
\* is stopped, quiet hours begin or the task is removed.
C39_DueTaskIsRun ==
    \A task_id \in TaskIds :
        (Scheduling(task_id) /\ Due(task_id) /\ hb.now < MaxNow)
            ~> (ActionRuns(task_id) \/ ~Scheduling(task_id) \/ ~Due(task_id))

=============================================================================
